---- MODULE Spec2Model ----
(***************************************************************************)
(* A model of the image pipeline of lookify (fitting/utils/image_processing *)
(* and fitting/services/image_utils): the decoder chain of                  *)
(* normalize_to_webp with its external-converter rung, the collage and      *)
(* placeholder builders with their path guard, the upload validators of     *)
(* fitting/forms and fitting/api/serializers, the resizers, and the try-on  *)
(* requests of the views.  One call runs at a time; pc is the position      *)
(* inside the running call.                                                 *)
(***************************************************************************)
EXTENDS Integers, Sequences, FiniteSets, TLC

VARIABLES
  pc,          \* position in the running call ("idle" when none runs)
  op,          \* the function that runs or has just finished
  up,          \* normalize_to_webp: the upload (name, sniffed mime, pyheif present)
  attempted,   \* normalize_to_webp: the decoder rungs tried so far, with their result
  outcome,     \* how the call ended: "none", "image"/"path" (returned) or "raise"
  hint,        \* _convert_heif_like_external: input_ext_hint
  tmp,         \* _convert_heif_like_external: the temporary directory and its files
  loc,         \* _convert_heif_like_external: tmp_in, tmp_out, tmp_dir locals, tool, pending exception
  proc,        \* the spawned converter process
  created,     \* what the running converter call has created so far (history)
  paths,       \* combine_item_images / build_preview_placeholder: the relative paths given
  idx,         \* combine_item_images: index of the path being loaded (1-based)
  opened,      \* absolute paths handed to Image.open that named an existing file
  item_images, \* combine_item_images: sizes of the loaded (transposed, downscaled) images
  layout,      \* combine_item_images: the collage computed (cols, rows, cell, canvas, pastes)
  written,     \* files written under MEDIA_ROOT/results by the running call
  err,         \* build_preview_placeholder: the exception that left the call, and its cause
  file,        \* upload validation: the uploaded file and the validator's configuration
  image,       \* the image a normalization path ends with (after orientation, mode and size steps)
  errors,      \* upload validation: the errors reported, as <<field, message>>
  stored,      \* files saved under MEDIA_ROOT/uploads by the running validation
  req,         \* a try-on request: its inputs, the steps taken and the response
  rs,          \* a resize call: the size and threshold given and the sizes returned
  conc         \* concurrent invocations: their steps, the names drawn, the files and directories

vars == <<pc, op, up, attempted, outcome, hint, tmp, loc, proc, created,
          paths, idx, opened, item_images, layout, written, err,
          file, image, errors, stored, req, rs, conc>>

decodeVars == <<up, attempted>>
extVars == <<hint, tmp, loc, proc, created>>
collageVars == <<paths, idx, opened, item_images, layout, written, err>>
uploadVars == <<file, image, errors, stored, req, rs>>

-----------------------------------------------------------------------------
(* Python string operations, on TLA+ strings.                              *)

StartsWith(s, p) == Len(s) >= Len(p) /\ SubSeq(s, 1, Len(p)) = p

EndsWith(s, p) == Len(s) >= Len(p) /\ SubSeq(s, Len(s) - Len(p) + 1, Len(s)) = p

Contains(s, t) == \E i \in 1..(Len(s) - Len(t) + 1) : SubSeq(s, i, i + Len(t) - 1) = t

UpperChars == "ABCDEFGHIJKLMNOPQRSTUVWXYZ"

LowerChars == "abcdefghijklmnopqrstuvwxyz"

LowerChar(c) ==
  IF \E i \in 1..Len(UpperChars) : SubSeq(UpperChars, i, i) = c
  THEN LET i == CHOOSE k \in 1..Len(UpperChars) : SubSeq(UpperChars, k, k) = c
       IN  SubSeq(LowerChars, i, i)
  ELSE c

RECURSIVE Lower(_)
Lower(s) ==
  IF Len(s) = 0 THEN ""
  ELSE LowerChar(SubSeq(s, 1, 1)) \o Lower(SubSeq(s, 2, Len(s)))

-----------------------------------------------------------------------------
(* os.path on POSIX path strings.                                          *)

\* the components of s between the "/" separators; cur is the one being read
RECURSIVE SplitPath(_, _)
SplitPath(s, cur) ==
  IF Len(s) = 0 THEN <<cur>>
  ELSE IF SubSeq(s, 1, 1) = "/" THEN <<cur>> \o SplitPath(SubSeq(s, 2, Len(s)), "")
  ELSE SplitPath(SubSeq(s, 2, Len(s)), cur \o SubSeq(s, 1, 1))

\* os.path.normpath of an absolute path: "" and "." vanish, ".." pops
RECURSIVE Collapse(_, _)
Collapse(comps, stack) ==
  IF Len(comps) = 0 THEN stack
  ELSE LET c == Head(comps)
       IN  IF c = "" \/ c = "." THEN Collapse(Tail(comps), stack)
           ELSE IF c = ".."
           THEN Collapse(Tail(comps),
                         IF Len(stack) = 0 THEN stack ELSE SubSeq(stack, 1, Len(stack) - 1))
           ELSE Collapse(Tail(comps), Append(stack, c))

RECURSIVE JoinComps(_)
JoinComps(stack) ==
  IF Len(stack) = 0 THEN "" ELSE "/" \o Head(stack) \o JoinComps(Tail(stack))

\* os.path.abspath of an absolute path (MEDIA_ROOT is absolute, so every path joined to it is)
abspath(p) ==
  LET stack == Collapse(SplitPath(p, ""), <<>>)
  IN  IF Len(stack) = 0 THEN "/" ELSE JoinComps(stack)

\* os.path.join(a, b): an absolute b discards a
join(a, b) ==
  IF StartsWith(b, "/") THEN b
  ELSE IF a = "" \/ EndsWith(a, "/") THEN a \o b
  ELSE a \o "/" \o b

-----------------------------------------------------------------------------
(* Python float arithmetic (IEEE 754 binary64, round to nearest, ties to    *)
(* even) for the resize ratio.  A float is [sig, e]: the significand, an    *)
(* integer written as a sequence of 13-bit limbs (most significant first),  *)
(* times 2^e.  Integers stay below 2^18, so no product leaves 31 bits.      *)

Precision == 53

LimbBits == 13

RECURSIVE Pow2(_)
Pow2(k) == IF k = 0 THEN 1 ELSE 2 * Pow2(k - 1)

Base == Pow2(LimbBits)

RECURSIVE IntBitLen(_)
IntBitLen(n) == IF n = 0 THEN 0 ELSE 1 + IntBitLen(n \div 2)

RECURSIVE StripZeros(_)
StripZeros(l) == IF Len(l) > 0 /\ l[1] = 0 THEN StripZeros(Tail(l)) ELSE l

BitLen(l) == IF Len(l) = 0 THEN 0 ELSE IntBitLen(l[1]) + LimbBits * (Len(l) - 1)

RECURSIVE LimbsToInt(_)
LimbsToInt(l) ==
  IF Len(l) = 0 THEN 0 ELSE Base * LimbsToInt(SubSeq(l, 1, Len(l) - 1)) + l[Len(l)]

RECURSIVE IntToLimbs(_)
IntToLimbs(n) == IF n = 0 THEN <<>> ELSE Append(IntToLimbs(n \div Base), n % Base)

\* l + 1
RECURSIVE IncLimbs(_)
IncLimbs(l) ==
  IF Len(l) = 0 THEN <<1>>
  ELSE IF l[Len(l)] < Base - 1 THEN Append(SubSeq(l, 1, Len(l) - 1), l[Len(l)] + 1)
  ELSE Append(IncLimbs(SubSeq(l, 1, Len(l) - 1)), 0)

\* bit p of l (bit 0 is the least significant)
BitAt(l, p) ==
  LET j == Len(l) - (p \div LimbBits)
  IN  IF j < 1 THEN 0 ELSE (l[j] \div Pow2(p % LimbBits)) % 2

\* whether any of the d lowest bits of l is set
LowBitsSet(l, d) ==
  LET k == d \div LimbBits
      r == d % LimbBits
  IN  \/ \E i \in 1..Len(l) : i > Len(l) - k /\ l[i] # 0
      \/ (Len(l) - k >= 1 /\ l[Len(l) - k] % Pow2(r) # 0)

\* floor(l / 2^d)
ShiftRight(l, d) ==
  LET k == d \div LimbBits
      r == d % LimbBits
      kept == IF k >= Len(l) THEN <<>> ELSE SubSeq(l, 1, Len(l) - k)
  IN  StripZeros([i \in 1..Len(kept) |->
        (kept[i] \div Pow2(r))
        + (IF i > 1 THEN (kept[i - 1] % Pow2(r)) * Pow2(LimbBits - r) ELSE 0)])

\* l rounded to Precision significant bits, ties to even: [sig, dropped]
RoundSig(l) ==
  LET d == BitLen(l) - Precision
  IN  IF d <= 0 THEN [sig |-> l, dropped |-> 0]
      ELSE LET round_up == BitAt(l, d - 1) = 1 /\ (LowBitsSet(l, d - 1) \/ BitAt(l, d) = 1)
               q == ShiftRight(l, d)
           IN  [sig |-> IF round_up THEN IncLimbs(q) ELSE q, dropped |-> d]

\* the least a with n * 2^a >= m
RECURSIVE ShiftFor(_, _)
ShiftFor(n, m) == IF n >= m THEN 0 ELSE 1 + ShiftFor(2 * n, m)

\* long division: the next k limbs of rem / m, then the remainder left
RECURSIVE QuotientLimbs(_, _, _)
QuotientLimbs(rem, m, k) ==
  IF k = 0 THEN [q |-> <<>>, rem |-> rem]
  ELSE LET rest == QuotientLimbs((rem * Base) % m, m, k - 1)
       IN  [q |-> <<(rem * Base) \div m>> \o rest.q, rem |-> rest.rem]

\* n / m as a float, for integers 0 < n < m (true division, correctly rounded):
\* the leading bit and 4 limbs make the 53 bits, the remainder decides the rounding
FDiv(n, m) ==
  LET a == ShiftFor(n, m)
      d == QuotientLimbs(n * Pow2(a) - m, m, (Precision - 1) \div LimbBits)
      q == <<1>> \o d.q
      round_up == 2 * d.rem > m \/ (2 * d.rem = m /\ BitAt(q, 0) = 1)
  IN  [sig |-> IF round_up THEN IncLimbs(q) ELSE q, e |-> 0 - (Precision - 1) - a]

\* x * l + carry, for an integer x >= 0: the exact product
RECURSIVE MulLimbs(_, _, _)
MulLimbs(l, x, carry) ==
  IF Len(l) = 0 THEN IntToLimbs(carry)
  ELSE LET t == x * l[Len(l)] + carry
       IN  Append(MulLimbs(SubSeq(l, 1, Len(l) - 1), x, t \div Base), t % Base)

\* int * float: the integer converts exactly, the product is rounded once
FMulInt(x, f) ==
  LET r == RoundSig(StripZeros(MulLimbs(f.sig, x, 0)))
  IN  [sig |-> r.sig, e |-> f.e + r.dropped]

\* int(f) for 0 <= f < 2^18: truncation
FInt(f) ==
  IF f.e >= 0 THEN LimbsToInt(f.sig) * Pow2(f.e) ELSE LimbsToInt(ShiftRight(f.sig, 0 - f.e))

-----------------------------------------------------------------------------
(* normalize_to_webp: the decoder chain.                                   *)

\* Sniffed MIME types; "" stands for None (magic absent or raising): both are falsy.
Mimes == {"", "image/jpeg", "image/heic", "image/heif", "image/avif",
          "image/heic-sequence", "application/octet-stream"}

\* Client file names; "" stands for a missing name.
Names == {"", "a.jpg", "a.png", "IMG.HEIC", "b.heif", "c.AVIF", "heic", "a.heic.jpg"}

filename_lower(u) == Lower(u.name)

\* line 146: pyheif is tried for HEIC/HEIF only, and only when it is installed
PyheifGate_NoFormat(u) == u.pyheif

PyheifGate(u) ==
  /\ u.pyheif
  /\ \/ (u.mime # "" /\ (Contains(u.mime, "heic") \/ Contains(u.mime, "heif")))
     \/ EndsWith(filename_lower(u), ".heic")
     \/ EndsWith(filename_lower(u), ".heif")

\* line 169: the external converter is tried for HEIC/HEIF/AVIF only
ExternalGate_Always(u) == TRUE

ExternalGate(u) ==
  \/ (u.mime # "" /\ \E x \in {"heic", "heif", "avif"} : Contains(u.mime, x))
  \/ \E e \in {".heic", ".heif", ".avif"} : EndsWith(filename_lower(u), e)

\* line 171
ExternalHint(u) ==
  IF EndsWith(filename_lower(u), ".avif") \/ (u.mime # "" /\ Contains(u.mime, "avif"))
  THEN ".avif" ELSE ".heic"

NoTmp == [dir |-> FALSE, input |-> FALSE, output |-> FALSE]

NoLoc == [tmp_in |-> "", tmp_out |-> "", tmp_dir |-> FALSE, heif_convert |-> FALSE,
          magick |-> FALSE, tool |-> "none", exc |-> FALSE]

NoProc == [state |-> "none", code |-> 0, spawned |-> 0]

NoLayout == [canvas |-> FALSE, cols |-> 0, rows |-> 0, cell |-> <<0, 0>>,
             size |-> <<0, 0>>, pastes |-> <<>>]

\* no exception has left the call
NoError == [type |-> "none"]

NoUpload == [name |-> "", mime |-> "", pyheif |-> FALSE]

NoFile == [name |-> "none"]

NoImage == [mode |-> "none"]

NoRequest == [view |-> "none"]

NoResize == [given |-> <<0, 0>>]

NoConc == [inv |-> <<>>, names |-> {}, files |-> {}, dirs |-> {},
           registered |-> TRUE, foreign |-> FALSE]

Init ==
  /\ pc = "idle"
  /\ op = "none"
  /\ up = NoUpload
  /\ attempted = <<>>
  /\ outcome = "none"
  /\ hint = ""
  /\ tmp = NoTmp
  /\ loc = NoLoc
  /\ proc = NoProc
  /\ created = {}
  /\ paths = <<>>
  /\ idx = 0
  /\ opened = <<>>
  /\ item_images = <<>>
  /\ layout = NoLayout
  /\ written = {}
  /\ err = NoError
  /\ file = NoFile
  /\ image = NoImage
  /\ errors = <<>>
  /\ stored = <<>>
  /\ req = NoRequest
  /\ rs = NoResize
  /\ conc = NoConc

Log(rung, res) == Append(attempted, [rung |-> rung, res |-> res])

\* lines 97-120: read the bytes, sniff the MIME type, lower-case the name
NormalizeStart ==
  /\ pc = "idle"
  /\ \E n \in Names, m \in Mimes, ph \in BOOLEAN :
       up' = [name |-> n, mime |-> m, pyheif |-> ph]
  /\ op' = "normalize"
  /\ pc' = "n_open"
  /\ UNCHANGED <<attempted, outcome>>
  /\ UNCHANGED extVars
  /\ UNCHANGED collageVars
  /\ UNCHANGED uploadVars
  /\ UNCHANGED conc

\* lines 143-179: where the chain goes once read_heif has failed
AfterReadHeif(u) ==
  IF PyheifGate(u) THEN "n_pyheif"
  ELSE IF ExternalGate(u) THEN "n_external"
  ELSE "n_raise"

Fallthrough_HeifEntryPointsSwapped(rung, ok, u) ==
  IF ok THEN "n_post"
  ELSE CASE rung = "Image.open" -> "n_read_heif"
         [] rung = "read_heif" -> "n_open_heif"
         [] rung = "open_heif" -> AfterReadHeif(u)
         [] rung = "pyheif" -> "n_external"

\* lines 123-179: the nesting of the try/except blocks: a rung that succeeds
\* leaves the chain, a rung that fails hands over to the next one
Fallthrough(rung, ok, u) ==
  IF ok THEN "n_post"
  ELSE CASE rung = "Image.open" -> "n_open_heif"
         [] rung = "open_heif" -> "n_read_heif"
         [] rung = "read_heif" -> AfterReadHeif(u)
         [] rung = "pyheif" -> "n_external"

\* lines 162, 171: the hint handed to the external converter
HintFor(rung, u) == IF rung = "pyheif" THEN ".heic" ELSE ExternalHint(u)

\* one in-process rung: it either yields an image or raises
TryRung(rung) ==
  \E ok \in BOOLEAN :
    /\ attempted' = Log(rung, IF ok THEN "ok" ELSE "fail")
    /\ pc' = Fallthrough(rung, ok, up)
    /\ hint' = IF Fallthrough(rung, ok, up) = "n_external" THEN HintFor(rung, up) ELSE hint
    /\ UNCHANGED <<op, up, outcome>>
    /\ UNCHANGED <<tmp, loc, proc, created>>
    /\ UNCHANGED collageVars
    /\ UNCHANGED uploadVars
    /\ UNCHANGED conc

\* lines 123-126: Image.open
TryImageOpen == pc = "n_open" /\ TryRung("Image.open")

\* lines 128-133: pillow_heif.open_heif
TryOpenHeif == pc = "n_open_heif" /\ TryRung("open_heif")

\* lines 134-144: pillow_heif.read_heif
TryReadHeif == pc = "n_read_heif" /\ TryRung("read_heif")

\* lines 146-159: pyheif.read_heif
TryPyheif == pc = "n_pyheif" /\ TryRung("pyheif")

\* lines 162, 172: the call of _convert_heif_like_external
CallExternal ==
  /\ pc = "n_external"
  /\ attempted' = Log("external", "pending")
  /\ pc' = "x_mkdtemp"
  /\ UNCHANGED <<op, up, outcome>>
  /\ UNCHANGED extVars
  /\ UNCHANGED collageVars
  /\ UNCHANGED uploadVars
  /\ UNCHANGED conc

\* line 179: the bare raise of the non-HEIF branch
RaiseNonHeif ==
  /\ pc = "n_raise"
  /\ outcome' = "raise"
  /\ pc' = "done"
  /\ UNCHANGED <<op, up, attempted>>
  /\ UNCHANGED extVars
  /\ UNCHANGED collageVars
  /\ UNCHANGED uploadVars
  /\ UNCHANGED conc

-----------------------------------------------------------------------------
(* _convert_heif_like_external: the external-converter rung.               *)

Raise(l) == [l EXCEPT !.exc = TRUE]

\* line 49: tempfile.mkdtemp
ExtMkdtemp ==
  /\ pc = "x_mkdtemp"
  /\ \/ /\ tmp' = [tmp EXCEPT !.dir = TRUE]
        /\ loc' = [loc EXCEPT !.tmp_dir = TRUE]
        /\ created' = created \cup {"dir"}
        /\ pc' = "x_write"
     \/ /\ loc' = Raise(loc)
        /\ pc' = "x_finally"
        /\ UNCHANGED <<tmp, created>>
  /\ UNCHANGED <<op, outcome, hint, proc>>
  /\ UNCHANGED decodeVars
  /\ UNCHANGED collageVars
  /\ UNCHANGED uploadVars
  /\ UNCHANGED conc

\* line 51
InputExt(h) == IF h \in {".heic", ".heif", ".avif"} THEN h ELSE ".heic"

\* lines 51-55: name the input file and write the bytes to it
ExtWriteInput ==
  /\ pc = "x_write"
  /\ \/ /\ tmp' = [tmp EXCEPT !.input = TRUE]
        /\ loc' = [loc EXCEPT !.tmp_in = "input" \o InputExt(hint)]
        /\ created' = created \cup {"input"}
        /\ pc' = "x_resolve"
     \/ \E made \in BOOLEAN :
          /\ tmp' = [tmp EXCEPT !.input = made]
          /\ loc' = Raise([loc EXCEPT !.tmp_in = "input" \o InputExt(hint)])
          /\ created' = IF made THEN created \cup {"input"} ELSE created
          /\ pc' = "x_finally"
  /\ UNCHANGED <<op, outcome, hint, proc>>
  /\ UNCHANGED decodeVars
  /\ UNCHANGED collageVars
  /\ UNCHANGED uploadVars
  /\ UNCHANGED conc

\* lines 60, 67, 75: heif-convert when resolved, else ImageMagick, else none
ChooseTool_MagickFirst(heif_convert, magick) ==
  IF magick THEN "magick" ELSE IF heif_convert THEN "heif-convert" ELSE "none"

ChooseTool(heif_convert, magick) ==
  IF heif_convert THEN "heif-convert" ELSE IF magick THEN "magick" ELSE "none"

\* lines 57-58, 75-76: _resolve_executable for both tools
ExtResolve ==
  /\ pc = "x_resolve"
  /\ \E heif_convert \in BOOLEAN, magick \in BOOLEAN :
       LET t == ChooseTool(heif_convert, magick)
           resolved == [loc EXCEPT !.heif_convert = heif_convert, !.magick = magick]
       IN  /\ loc' = IF t = "none" THEN Raise(resolved) ELSE [resolved EXCEPT !.tool = t]
           /\ pc' = IF t = "none" THEN "x_finally" ELSE "x_run"
  /\ UNCHANGED <<op, outcome, hint, tmp, proc, created>>
  /\ UNCHANGED decodeVars
  /\ UNCHANGED collageVars
  /\ UNCHANGED uploadVars
  /\ UNCHANGED conc

\* lines 63, 71: subprocess.run spawns the converter (no timeout argument) and
\* waits for it; the process either exits at some point or never does
ExtSpawn ==
  /\ pc = "x_run"
  /\ \/ /\ \E st \in {"running", "hung"} :
             proc' = [proc EXCEPT !.state = st, !.spawned = @ + 1]
        /\ pc' = "x_wait"
        /\ loc' = loc
     \/ /\ loc' = Raise(loc)
        /\ pc' = "x_finally"
        /\ proc' = proc
  /\ UNCHANGED <<op, outcome, hint, tmp, created>>
  /\ UNCHANGED decodeVars
  /\ UNCHANGED collageVars
  /\ UNCHANGED uploadVars
  /\ UNCHANGED conc

RunFailed_ExitCodeOnly(code, out_exists) == code # 0

\* lines 64, 72: the success test of a finished converter run
RunFailed(code, out_exists) == code # 0 \/ ~out_exists

\* lines 63-66, 71-74: subprocess.run returns once the process has exited
ExtProcReturn ==
  /\ pc = "x_wait"
  /\ proc.state = "running"
  /\ \E code \in {0, 1}, wrote \in BOOLEAN :
       /\ proc' = [proc EXCEPT !.state = "exited", !.code = code]
       /\ tmp' = [tmp EXCEPT !.output = wrote]
       /\ created' = IF wrote THEN created \cup {"output"} ELSE created
       /\ loc' = IF RunFailed(code, wrote) THEN Raise(loc) ELSE loc
       /\ pc' = IF RunFailed(code, wrote) THEN "x_finally" ELSE "x_read"
  /\ UNCHANGED <<op, outcome, hint>>
  /\ UNCHANGED decodeVars
  /\ UNCHANGED collageVars
  /\ UNCHANGED uploadVars
  /\ UNCHANGED conc

\* lines 78-80: read the PNG back
ExtReadOutput ==
  /\ pc = "x_read"
  /\ \E ok \in BOOLEAN : loc' = IF ok THEN loc ELSE Raise(loc)
  /\ pc' = "x_finally"
  /\ UNCHANGED <<op, outcome, hint, tmp, proc, created>>
  /\ UNCHANGED decodeVars
  /\ UNCHANGED collageVars
  /\ UNCHANGED uploadVars
  /\ UNCHANGED conc

\* lines 83-86 only: the two os.remove calls (tmp_out is never assigned)
RemoveFiles(t, l) ==
  LET t1 == IF l.tmp_in # "" /\ t.input THEN [t EXCEPT !.input = FALSE] ELSE t
  IN  IF l.tmp_out # "" /\ t1.output THEN [t1 EXCEPT !.output = FALSE] ELSE t1

CleanupTmp_NoRmtree(t, l) == RemoveFiles(t, l)

\* lines 81-90: the finally block; rmtree removes the directory with all it holds
CleanupTmp(t, l) ==
  LET t2 == RemoveFiles(t, l)
  IN  IF l.tmp_dir /\ t2.dir THEN NoTmp ELSE t2

SetLast(log, res) == [log EXCEPT ![Len(log)].res = res]

\* lines 81-90, then lines 162-166 / 172-176 of the caller: clean up, then hand
\* the image or the exception to normalize_to_webp, which re-raises it
ExtFinally ==
  /\ pc = "x_finally"
  /\ tmp' = CleanupTmp(tmp, loc)
  /\ attempted' = SetLast(attempted, IF loc.exc THEN "fail" ELSE "ok")
  /\ outcome' = IF loc.exc THEN "raise" ELSE outcome
  /\ pc' = IF loc.exc THEN "done" ELSE "n_post"
  /\ UNCHANGED <<op, up, hint, loc, proc, created>>
  /\ UNCHANGED collageVars
  /\ UNCHANGED uploadVars
  /\ UNCHANGED conc

-----------------------------------------------------------------------------
(* The storage: settings.MEDIA_ROOT and the files on disk.                 *)

MEDIA_ROOT == "/d/media"

\* Files on disk: under uploads/, in a sibling directory whose name begins with
\* the root's name, and outside.  orientation is the EXIF tag (1 = upright).
Disk == {
  [path |-> "/d/media/uploads/a.jpg", image |-> TRUE, mode |-> "RGB", size |-> <<500, 400>>, orientation |-> 1],
  [path |-> "/d/media/uploads/b.png", image |-> TRUE, mode |-> "RGBA", size |-> <<601, 600>>, orientation |-> 1],
  [path |-> "/d/media/uploads/c.jpg", image |-> TRUE, mode |-> "RGB", size |-> <<1078, 539>>, orientation |-> 1],
  [path |-> "/d/media/uploads/d.jpg", image |-> TRUE, mode |-> "RGB", size |-> <<301, 777>>, orientation |-> 6],
  [path |-> "/d/media/uploads/t.jpg", image |-> TRUE, mode |-> "RGB", size |-> <<1000, 1>>, orientation |-> 1],
  [path |-> "/d/media/uploads/z.jpg", image |-> TRUE, mode |-> "RGB", size |-> <<0, 0>>, orientation |-> 1],
  [path |-> "/d/media/uploads/bad.jpg", image |-> FALSE, mode |-> "RGB", size |-> <<0, 0>>, orientation |-> 1],
  [path |-> "/d/media/uploads/u.jpg", image |-> TRUE, mode |-> "RGB", size |-> <<4177, 2000>>, orientation |-> 3],
  [path |-> "/d/media2/x.jpg", image |-> TRUE, mode |-> "RGB", size |-> <<300, 200>>, orientation |-> 1],
  [path |-> "/etc/passwd", image |-> FALSE, mode |-> "RGB", size |-> <<0, 0>>, orientation |-> 1] }

Exists(full) == \E f \in Disk : f.path = full

File(full) == CHOOSE f \in Disk : f.path = full

\* Relative paths a caller may hand to combine_item_images
ItemPaths == {"uploads/a.jpg", "uploads/b.png", "uploads/c.jpg", "uploads/d.jpg",
              "uploads/t.jpg", "uploads/z.jpg", "uploads/bad.jpg", "uploads/gone.jpg",
              "uploads/../uploads/a.jpg", "../media2/x.jpg", "../../etc/passwd",
              "/etc/passwd"}

\* Relative paths a caller may hand to build_preview_placeholder
UserPaths == ItemPaths \cup {"uploads/u.jpg"}

MaxItems == 3

RECURSIVE SeqsUpTo(_, _)
SeqsUpTo(S, n) ==
  IF n = 0 THEN {<<>>}
  ELSE LET shorter == SeqsUpTo(S, n - 1)
       IN  shorter \cup {Append(q, x) : q \in {t \in shorter : Len(t) = n - 1}, x \in S}

\* lines 23, 98: os.path.abspath(os.path.join(settings.MEDIA_ROOT, path))
FullPath(rel) == abspath(join(MEDIA_ROOT, rel))

Resolved == [rel \in UserPaths |-> FullPath(rel)]

PathGuard_None(full) == TRUE

\* lines 24, 99: full_path.startswith(os.path.abspath(settings.MEDIA_ROOT))
PathGuard(full) == StartsWith(full, abspath(MEDIA_ROOT))

Max(a, b) == IF a >= b THEN a ELSE b

\* ImageOps.exif_transpose: orientations 5 to 8 turn the image by a quarter
Transposed(f) ==
  IF f.orientation \in 5..8 THEN <<f.size[2], f.size[1]>> ELSE f.size

\* lines 79-84: _downscale_image, the size asked of img.resize
_downscale_image(size, max_dimension) ==
  IF Max(size[1], size[2]) > max_dimension
  THEN LET ratio == FDiv(max_dimension, Max(size[1], size[2]))
       IN  <<FInt(FMulInt(size[1], ratio)), FInt(FMulInt(size[2], ratio))>>
  ELSE size

\* line 83: Image.resize raises ValueError when asked for a size with a zero side
ResizeRaises(size, max_dimension) ==
  LET new_size == _downscale_image(size, max_dimension)
  IN  Max(size[1], size[2]) > max_dimension /\ (new_size[1] = 0 \/ new_size[2] = 0)

\* line 108: the long-edge bound of a collage input
ItemMaxDimension == 800

\* line 38: the long-edge bound of the placeholder
PlaceholderMaxDimension == 3000

\* What loading one stored image does (lines 102-109 and 31-39): "ok" with the
\* size of the image kept, or the exception raised
Load(full, max_dimension) ==
  IF ~Exists(full) THEN [res |-> "FileNotFoundError", size |-> <<0, 0>>]
  ELSE LET f == File(full)
       IN  IF ~f.image THEN [res |-> "UnidentifiedImageError", size |-> <<0, 0>>]
           ELSE IF f.size = <<0, 0>> THEN [res |-> "ValueError", size |-> <<0, 0>>]
           ELSE IF ResizeRaises(Transposed(f), max_dimension)
           THEN [res |-> "ValueError", size |-> <<0, 0>>]
           ELSE [res |-> "ok", size |-> _downscale_image(Transposed(f), max_dimension)]

\* line 108 and line 39: both loaders, for every path a caller may name
Loaded == [full \in {Resolved[rel] : rel \in UserPaths} |->
             [item |-> Load(full, ItemMaxDimension),
              user |-> Load(full, PlaceholderMaxDimension)]]

-----------------------------------------------------------------------------
(* combine_item_images: the collage.                                       *)

\* line 134: the spacing between cells
Spacing == 20

\* lines 118-124
GridCols(num_items) == 2

GridRows_Halved(num_items) == IF num_items = 2 THEN 1 ELSE num_items \div 2

\* lines 118-125
GridRows(num_items) == IF num_items = 2 THEN 1 ELSE (num_items + 1) \div 2

RECURSIVE MaxOf(_, _)
MaxOf(images, k) ==
  IF Len(images) = 0 THEN 0 ELSE Max(Head(images)[k], MaxOf(Tail(images), k))

\* lines 128-131: the cell is as wide and as high as the widest and the highest input
CellSize(images) == <<MaxOf(images, 1), MaxOf(images, 2)>>

CanvasSize_SpacingPerCell(cols, rows, cell) ==
  <<cols * cell[1] + cols * Spacing, rows * cell[2] + rows * Spacing>>

\* lines 134-135
CanvasSize(cols, rows, cell) ==
  <<cols * cell[1] + (cols - 1) * Spacing, rows * cell[2] + (rows - 1) * Spacing>>

PastePos_NotHalved(i, img, cols, cell) ==
  LET row == i \div cols
      col == i % cols
  IN  <<col * (cell[1] + Spacing) + (cell[1] - img[1]),
        row * (cell[2] + Spacing) + (cell[2] - img[2]) \div 2>>

\* lines 139-147: where image i (0-based) is pasted
PastePos(i, img, cols, cell) ==
  LET row == i \div cols
      col == i % cols
      x == col * (cell[1] + Spacing)
      y == row * (cell[2] + Spacing)
  IN  <<x + (cell[1] - img[1]) \div 2, y + (cell[2] - img[2]) \div 2>>

\* lines 112-148: the combined image
Collage(images) ==
  LET num_items == Len(images)
  IN  IF num_items = 1
      THEN [canvas |-> FALSE, cols |-> 0, rows |-> 0, cell |-> <<0, 0>>,
            size |-> images[1], pastes |-> <<>>]
      ELSE LET cols == GridCols(num_items)
               rows == GridRows(num_items)
               cell == CellSize(images)
           IN  [canvas |-> TRUE, cols |-> cols, rows |-> rows, cell |-> cell,
                size |-> CanvasSize(cols, rows, cell),
                pastes |-> [i \in 1..num_items |->
                              [at |-> PastePos(i - 1, images[i], cols, cell),
                               size |-> images[i]]]]

\* lines 91-93: the call, and the test for an empty list
CombineStart ==
  /\ pc = "idle"
  /\ \E given \in SeqsUpTo(ItemPaths, MaxItems) :
       /\ paths' = given
       /\ pc' = IF Len(given) = 0 THEN "done" ELSE "c_guard"
       /\ outcome' = IF Len(given) = 0 THEN "raise" ELSE outcome
  /\ op' = "combine"
  /\ idx' = 1
  /\ UNCHANGED <<opened, item_images, layout, written, err>>
  /\ UNCHANGED decodeVars
  /\ UNCHANGED extVars
  /\ UNCHANGED uploadVars
  /\ UNCHANGED conc

\* lines 97-100: resolve the next path and test it against the root
CombineGuard ==
  /\ pc = "c_guard"
  /\ IF PathGuard(Resolved[paths[idx]])
     THEN pc' = "c_open" /\ outcome' = outcome
     ELSE pc' = "done" /\ outcome' = "raise"
  /\ UNCHANGED <<op, paths, idx, opened, item_images, layout, written, err>>
  /\ UNCHANGED decodeVars
  /\ UNCHANGED extVars
  /\ UNCHANGED uploadVars
  /\ UNCHANGED conc

\* lines 102-109: open the file, transpose and downscale the image, keep it
CombineLoad ==
  /\ pc = "c_open"
  /\ LET full == Resolved[paths[idx]]
         got == Loaded[full].item
     IN  /\ opened' = IF Exists(full) THEN Append(opened, full) ELSE opened
         /\ IF got.res = "ok"
            THEN /\ item_images' = Append(item_images, got.size)
                 /\ idx' = idx + 1
                 /\ pc' = IF idx = Len(paths) THEN "c_layout" ELSE "c_guard"
                 /\ outcome' = outcome
            ELSE /\ pc' = "done"
                 /\ outcome' = "raise"
                 /\ UNCHANGED <<item_images, idx>>
  /\ UNCHANGED <<op, paths, layout, written, err>>
  /\ UNCHANGED decodeVars
  /\ UNCHANGED extVars
  /\ UNCHANGED uploadVars
  /\ UNCHANGED conc

\* lines 111-166: lay the images out and save the combined image; makedirs and
\* save may raise, and every exception leaves as ValueError (lines 168-170)
CombineSave ==
  /\ pc = "c_layout"
  /\ layout' = Collage(item_images)
  /\ \/ /\ written' = written \cup {[kind |-> "combined_items", size |-> Collage(item_images).size]}
        /\ outcome' = "path"
     \/ /\ written' = written
        /\ outcome' = "raise"
  /\ pc' = "done"
  /\ UNCHANGED <<op, paths, idx, opened, item_images, err>>
  /\ UNCHANGED decodeVars
  /\ UNCHANGED extVars
  /\ UNCHANGED uploadVars
  /\ UNCHANGED conc

-----------------------------------------------------------------------------
(* build_preview_placeholder.                                              *)

\* img.save(format='JPEG'): the modes the JPEG encoder writes; any other mode
\* raises OSError ("cannot write mode RGBA as JPEG")
JpegModes == {"1", "L", "RGB", "RGBX", "CMYK", "YCbCr"}

\* The message of the exception Image.open, the zero-size test or img.resize
\* raised on the file (lines 31-39)
LoadMessage(full, res) ==
  CASE res = "FileNotFoundError" -> "[Errno 2] No such file or directory: '" \o full \o "'"
    [] res = "UnidentifiedImageError" -> "cannot identify image file '" \o full \o "'"
    [] File(full).size = <<0, 0>> -> "User image has zero dimensions."
    [] OTHER -> "height and width must be > 0"

\* what the caller may pass as additional_prompt
Prompts == {"", "more red"}

\* lines 49-60 on the opened image: draw.text with the RGB fill (255, 255, 255)
\* raises TypeError on a single-band image, and the JPEG encoder raises
\* OSError on a mode it does not write
PlaceholderSave(mode, additional_prompt) ==
  IF additional_prompt # "" /\ mode \in {"1", "L", "P"}
  THEN [res |-> "TypeError", raw |-> "color must be int or single-element tuple"]
  ELSE IF mode \notin JpegModes
  THEN [res |-> "OSError", raw |-> "cannot write mode " \o mode \o " as JPEG"]
  ELSE [res |-> "ok", raw |-> ""]

PlaceholderError_Reraise(cause, raw) ==
  [type |-> cause, message |-> raw, cause |-> cause, raw |-> raw]

\* lines 26-28 and 66-77: the except clauses, in their order.  Each raises
\* ValueError; the message is a fixed text, followed by str(e) in three of them
PlaceholderError(cause, raw) ==
  [type |-> "ValueError",
   message |-> CASE cause = "guard" -> "Invalid image file path."
                 [] cause \in {"FileNotFoundError", "ValueError"} ->
                      "Placeholder file error: " \o raw
                 [] cause = "UnidentifiedImageError" ->
                      "Provided file is not a valid image or is corrupted for placeholder."
                 [] cause = "OSError" -> "Placeholder file access error: " \o raw
                 [] OTHER -> "Unknown error during placeholder creation: " \o raw,
   cause |-> cause, raw |-> raw]

\* line 16: the call
PlaceholderStart ==
  /\ pc = "idle"
  /\ \E given \in UserPaths : paths' = <<given>>
  /\ op' = "placeholder"
  /\ idx' = 1
  /\ pc' = "p_guard"
  /\ UNCHANGED <<outcome, opened, item_images, layout, written, err>>
  /\ UNCHANGED decodeVars
  /\ UNCHANGED extVars
  /\ UNCHANGED uploadVars
  /\ UNCHANGED conc

\* lines 22-28: resolve the path and test it against the root
PlaceholderGuard ==
  /\ pc = "p_guard"
  /\ IF PathGuard(Resolved[paths[1]])
     THEN pc' = "p_open" /\ outcome' = outcome /\ err' = err
     ELSE /\ pc' = "done"
          /\ outcome' = "raise"
          /\ err' = PlaceholderError("guard",
                       "Invalid image path: detected attempt at Path Traversal.")
  /\ UNCHANGED <<op, paths, idx, opened, item_images, layout, written>>
  /\ UNCHANGED decodeVars
  /\ UNCHANGED extVars
  /\ UNCHANGED uploadVars
  /\ UNCHANGED conc

\* lines 30-77: open the user image, transpose and downscale it, write the text
\* and save the copy; makedirs and save may fail on the file system, and every
\* exception leaves as ValueError
PlaceholderBuild ==
  /\ pc = "p_open"
  /\ \E additional_prompt \in Prompts :
       LET full == Resolved[paths[1]]
           got == Loaded[full].user
           out == PlaceholderSave(File(full).mode, additional_prompt)
           fail(cause, raw) == /\ written' = written
                               /\ outcome' = "raise"
                               /\ err' = PlaceholderError(cause, raw)
       IN  /\ opened' = IF Exists(full) THEN Append(opened, full) ELSE opened
           /\ IF got.res # "ok" THEN fail(got.res, LoadMessage(full, got.res))
              ELSE IF out.res # "ok" THEN fail(out.res, out.raw)
              ELSE \/ /\ written' = written \cup {[kind |-> "placeholder", size |-> got.size]}
                      /\ outcome' = "path"
                      /\ err' = err
                   \/ fail("OSError", "[Errno 28] No space left on device")
  /\ pc' = "done"
  /\ UNCHANGED <<op, paths, idx, item_images, layout>>
  /\ UNCHANGED decodeVars
  /\ UNCHANGED extVars
  /\ UNCHANGED uploadVars
  /\ UNCHANGED conc

-----------------------------------------------------------------------------
(* The resizers: _downscale_image, the inline resize of the upload          *)
(* validators (the same two lines) and the one of normalize_to_webp.        *)

\* image_processing.py lines 196-202: scale = max_px / float(long_edge), each
\* side is int(side * scale)
ResizeLongEdge(size, max_px) ==
  LET long_edge == Max(size[1], size[2])
  IN  IF long_edge > max_px
      THEN LET scale == FDiv(max_px, long_edge)
           IN  <<FInt(FMulInt(size[1], scale)), FInt(FMulInt(size[2], scale))>>
      ELSE size

\* forms.py line 290, serializers.py line 125: the long-edge bound of an upload
UploadMaxDimension == 3000

\* image_processing.py line 97: max_px
NormalizeMaxPx == 2048

\* Sides of the images handed to a resizer (128 and 256 are the minimum
\* sides the validators accept; a PNG may be 110000 pixels long)
Sides == {1, 3, 128, 155, 256, 539, 800, 992, 1078, 2000, 2215, 3000, 3001, 4177,
          110000}

\* The resizers and the threshold each is called with
Resizers == { [fn |-> "_downscale_image", max_dimension |-> ItemMaxDimension],
              [fn |-> "_downscale_image", max_dimension |-> PlaceholderMaxDimension],
              [fn |-> "validate_image", max_dimension |-> UploadMaxDimension],
              [fn |-> "normalize_to_webp", max_dimension |-> NormalizeMaxPx] }

\* the size a resizer asks of img.resize, or the size left alone
Resize(fn, size, max_dimension) ==
  IF fn = "normalize_to_webp" THEN ResizeLongEdge(size, max_dimension)
  ELSE _downscale_image(size, max_dimension)

\* one call of a resizer on an image of the given size
ResizeCall ==
  /\ pc = "idle"
  /\ \E w \in Sides, h \in Sides, r \in Resizers :
       rs' = [given |-> <<w, h>>, fn |-> r.fn, max_dimension |-> r.max_dimension,
              once |-> Resize(r.fn, <<w, h>>, r.max_dimension),
              raised |-> ResizeRaises(<<w, h>>, r.max_dimension),
              twice |-> <<0, 0>>]
  /\ op' = "resize"
  /\ pc' = "r_again"
  /\ UNCHANGED <<outcome, file, image, errors, stored, req>>
  /\ UNCHANGED decodeVars
  /\ UNCHANGED extVars
  /\ UNCHANGED collageVars
  /\ UNCHANGED conc

\* the same resizer called on what the first call returned
ResizeAgain ==
  /\ pc = "r_again"
  /\ rs' = [rs EXCEPT !.twice = IF rs.raised THEN <<0, 0>>
                                ELSE Resize(rs.fn, rs.once, rs.max_dimension)]
  /\ pc' = "done"
  /\ UNCHANGED <<op, outcome, file, image, errors, stored, req>>
  /\ UNCHANGED decodeVars
  /\ UNCHANGED extVars
  /\ UNCHANGED collageVars
  /\ UNCHANGED conc

-----------------------------------------------------------------------------
(* Decoded images.  An image is its mode, its size, its pixel buffer (px, a  *)
(* small matrix standing for the picture), the alpha of each pixel, and what *)
(* its EXIF block holds.                                                     *)

\* the picture as it should be displayed: 2 rows of 3 pixels
Upright == <<<<1, 2, 3>>, <<4, 5, 6>>>>

\* Image.transpose(method) / img.rotate(angle, expand=True) on an image: the
\* pixel buffer is flipped or turned, a quarter turn swaps width and height
Transpose(method, im) ==
  LET px == im.px
      H == Len(px)
      W == Len(px[1])
      swapped == <<im.size[2], im.size[1]>>
  IN  CASE method = "FLIP_LEFT_RIGHT" ->
             [im EXCEPT !.px = [r \in 1..H |-> [c \in 1..W |-> px[r][W + 1 - c]]]]
        [] method = "FLIP_TOP_BOTTOM" ->
             [im EXCEPT !.px = [r \in 1..H |-> [c \in 1..W |-> px[H + 1 - r][c]]]]
        [] method = "ROTATE_180" ->
             [im EXCEPT !.px = [r \in 1..H |-> [c \in 1..W |-> px[H + 1 - r][W + 1 - c]]]]
        [] method = "ROTATE_90" ->
             [im EXCEPT !.px = [r \in 1..W |-> [c \in 1..H |-> px[c][W + 1 - r]]],
                        !.size = swapped]
        [] method = "ROTATE_270" ->
             [im EXCEPT !.px = [r \in 1..W |-> [c \in 1..H |-> px[H + 1 - c][r]]],
                        !.size = swapped]
        [] method = "TRANSPOSE" ->
             [im EXCEPT !.px = [r \in 1..W |-> [c \in 1..H |-> px[c][r]]],
                        !.size = swapped]
        [] method = "TRANSVERSE" ->
             [im EXCEPT !.px = [r \in 1..W |-> [c \in 1..H |-> px[H + 1 - c][W + 1 - r]]],
                        !.size = swapped]
        [] OTHER -> im

\* The pixel buffer a camera stores for the upright picture U under EXIF
\* orientation o: o names the visual side of the buffer's first row and first
\* column (1 top/left, 2 top/right, 3 bottom/right, 4 bottom/left, 5 left/top,
\* 6 right/top, 7 right/bottom, 8 left/bottom)
ExifStored(o, U) ==
  LET H == Len(U)
      W == Len(U[1])
      R == IF o \in 5..8 THEN W ELSE H
      C == IF o \in 5..8 THEN H ELSE W
  IN  [r \in 1..R |-> [c \in 1..C |->
        CASE o = 2 -> U[r][C + 1 - c]
          [] o = 3 -> U[R + 1 - r][C + 1 - c]
          [] o = 4 -> U[R + 1 - r][c]
          [] o = 5 -> U[c][r]
          [] o = 6 -> U[c][R + 1 - r]
          [] o = 7 -> U[C + 1 - c][R + 1 - r]
          [] o = 8 -> U[C + 1 - c][r]
          [] OTHER -> U[r][c]]]

\* A decoded image file.  size is the size of the stored buffer; exif is
\* "none" (no EXIF block), "no_tag" (a block without Orientation), "tag" or
\* "broken" (a block the EXIF parser raises on); alpha is the transparency of
\* pixels 1..6 (255 opaque); format "" is a file no decoder identifies.
Picture(format, mode, transparency, size, exif, orientation) ==
  [format |-> format, mode |-> mode, transparency |-> transparency, size |-> size,
   exif |-> exif, orientation |-> orientation,
   px |-> IF exif = "tag" THEN ExifStored(orientation, Upright) ELSE Upright,
   alpha |-> IF mode \in {"RGBA", "LA"} \/ transparency
             THEN <<0, 128, 255, 255, 255, 255>>
             ELSE <<255, 255, 255, 255, 255, 255>>]

\* The contents an uploaded file may have
Contents ==
  {Picture("JPEG", "RGB", FALSE, <<300, 400>>, "tag", o) : o \in 1..8}
  \cup {Picture("JPEG", "RGB", FALSE, sz, "none", 1) :
          sz \in {<<300, 300>>, <<200, 300>>, <<127, 500>>, <<4177, 2000>>}}
  \cup {Picture("JPEG", "RGB", FALSE, <<300, 300>>, e, 1) : e \in {"no_tag", "broken"}}
  \cup {Picture("JPEG", m, FALSE, <<300, 300>>, "none", 1) : m \in {"L", "CMYK"}}
  \cup {Picture("PNG", m, FALSE, <<300, 300>>, "none", 1) : m \in {"RGB", "RGBA", "LA", "P"}}
  \cup {Picture(fmt, "RGB", FALSE, <<300, 300>>, "none", 1) :
          fmt \in {"WEBP", "HEIF", "BMP", "MPO", ""}}
  \cup {Picture("GIF", "P", TRUE, <<300, 300>>, "none", 1),
        Picture("HEIF", "RGBA", FALSE, <<300, 300>>, "none", 1)}

\* ImageOps.exif_transpose: the transposition the Orientation tag asks for;
\* the image returned carries no Orientation tag
exif_transpose(im) ==
  LET o == IF im.exif = "tag" THEN im.orientation ELSE 1
      method == CASE o = 2 -> "FLIP_LEFT_RIGHT"
                  [] o = 3 -> "ROTATE_180"
                  [] o = 4 -> "FLIP_TOP_BOTTOM"
                  [] o = 5 -> "TRANSPOSE"
                  [] o = 6 -> "ROTATE_270"
                  [] o = 7 -> "TRANSVERSE"
                  [] o = 8 -> "ROTATE_90"
                  [] OTHER -> "none"
  IN  IF method = "none" THEN im
      ELSE [Transpose(method, im) EXCEPT !.exif = "no_tag", !.orientation = 1]

-----------------------------------------------------------------------------
(* normalize_to_webp, after the decoder chain (image_processing.py).        *)

\* lines 93-94
_has_alpha(im) == im.mode \in {"RGBA", "LA"} \/ (im.mode = "P" /\ im.transparency)

\* lines 181-205 on a decoded image: the image handed to the JPEG encoder, or
\* the exception raised on the way.  blend is the weight of each pixel in the
\* paste over the white background (<<>> when nothing was pasted).
\* image.split()[-1] is the alpha band of an RGBA or LA image, but the band
\* of palette indices of a P image, and Image.paste raises ValueError ("bad
\* transparency mask") for a mask of mode P.
NormalizePost(decoded) ==
  LET transposed == IF decoded.exif = "broken" THEN decoded ELSE exif_transpose(decoded)
      mask_mode == IF transposed.mode = "P" THEN "P" ELSE "L"
      new_size == ResizeLongEdge(transposed.size, NormalizeMaxPx)
      result(raised, blend) ==
        [decoded |-> decoded, raised |-> raised, mode |-> IF raised = "" THEN "RGB" ELSE "none",
         size |-> new_size, px |-> transposed.px, blend |-> blend]
  IN  IF _has_alpha(transposed) /\ mask_mode \notin {"1", "L", "LA", "RGBA", "RGBa"}
      THEN result("ValueError", <<>>)
      ELSE IF Max(transposed.size[1], transposed.size[2]) > NormalizeMaxPx
              /\ (new_size[1] = 0 \/ new_size[2] = 0)
      THEN result("ValueError", <<>>)
      ELSE result("", IF _has_alpha(transposed) THEN transposed.alpha ELSE <<>>)

\* lines 181-221: the decoded image is transposed, flattened, resized and
\* encoded.  The decoder that succeeded fixes what the image can be: anything
\* Pillow identifies for Image.open, a HEIF image for the HEIF decoders, the
\* converter's PNG for the external rung.
NormalizeReturn ==
  /\ pc = "n_post"
  /\ \E content \in Contents :
       LET rung == attempted[Len(attempted)].rung
       IN  /\ content.format # ""
           /\ rung \in {"open_heif", "read_heif", "pyheif"} => content.format = "HEIF"
           /\ rung = "external" => (content.format = "PNG" /\ content.mode \in {"RGB", "RGBA"})
           /\ image' = NormalizePost(content)
           /\ outcome' = IF NormalizePost(content).raised = "" THEN "image" ELSE "raise"
  /\ pc' = "done"
  /\ UNCHANGED <<op, up, attempted>>
  /\ UNCHANGED <<file, errors, stored, req, rs>>
  /\ UNCHANGED extVars
  /\ UNCHANGED collageVars
  /\ UNCHANGED conc

-----------------------------------------------------------------------------
(* Upload validation: UploadForm._validate_and_process_image (forms.py) and *)
(* ImageUploadSerializer.validate_image (serializers.py), the same code but *)
(* for the allow-list and for the way an error is reported.                 *)

\* forms.py line 198, serializers.py line 34: max_size
MaxSize == 8 * 1024 * 1024

\* forms.py line 209, serializers.py line 49
file_extension(name) ==
  IF Contains(name, ".")
  THEN LET n == Len(name)
           k == CHOOSE i \in 1..n :
                  SubSeq(name, i, i) = "." /\ ~Contains(SubSeq(name, i + 1, n), ".")
       IN  Lower(SubSeq(name, k + 1, n))
  ELSE ""

\* forms.py line 210, serializers.py line 50
is_heic_file(name) == file_extension(name) \in {"heic", "heif"}

\* forms.py lines 199-203, serializers.py lines 39-43
allowed_mime_types(via, HEIC_SUPPORT) ==
  {"image/jpeg", "image/png", "image/webp", "image/avif"}
    \cup (IF via = "api" THEN {"image/mpo", "image/jpg"} ELSE {})
    \cup (IF HEIC_SUPPORT THEN {"image/heic", "image/heif"} ELSE {})

\* Image.open(file) and img.verify(): the formats Pillow identifies; HEIF only
\* with the pillow_heif opener registered
Decodable(content, HEIC_SUPPORT) ==
  content.format # "" /\ (content.format = "HEIF" => HEIC_SUPPORT)

\* forms.py lines 272-287, serializers.py lines 107-122: the orientation step.
\* It yields the image, or "raise" when _getexif() raises something other
\* than AttributeError, KeyError or IndexError
AutoOrient(im) ==
  IF im.exif = "broken" THEN [res |-> "raise", im |-> im]
  ELSE IF im.exif # "tag" THEN [res |-> "ok", im |-> im]
  ELSE [res |-> "ok",
        im |-> CASE im.orientation = 3 -> Transpose("ROTATE_180", im)
                 [] im.orientation = 6 -> Transpose("ROTATE_270", im)
                 [] im.orientation = 8 -> Transpose("ROTATE_90", im)
                 [] OTHER -> im]

\* forms.py lines 304-339, serializers.py lines 139-175: the file written
\* (ext, image), or the exception of the encoder
_save_image(im, content_type, filename) ==
  LET ext == CASE content_type = "image/png" -> "png"
               [] content_type = "image/webp" -> "webp"
               [] content_type = "image/avif" -> "avif"
               [] OTHER -> "jpeg"
      converted == IF ext \in {"png", "webp", "avif"} /\ im.mode # "RGBA"
                   THEN [im EXCEPT !.mode = "RGBA", !.transparency = FALSE]
                   ELSE im
  IN  IF ext = "jpeg" /\ converted.mode \notin JpegModes
      THEN [raised |-> "OSError", ext |-> ext, saved |-> NoImage]
      ELSE [raised |-> "", ext |-> ext, saved |-> converted]

\* forms.py lines 197-302, serializers.py lines 37-137: the whole validator on
\* one file f.  error is the message reported (by its kind), raised the
\* exception that leaves the validator, saved the image written; all three
\* empty when the validator returns None without an error.  When the first
\* Image.open fails on a .heic/.heif file and _try_heic_processing then reads
\* it, the serializer goes on with the image (serializers.py lines 86-101)
\* and the form reaches the "return None" of line 262.
validate_image(f) ==
  LET Reject(kind) == [error |-> kind, raised |-> "", ext |-> "", saved |-> NoImage]
      Crash(exc) == [error |-> "", raised |-> exc, ext |-> "", saved |-> NoImage]
      heic == is_heic_file(f.name)
      min == IF f.field = "user_photo" THEN 256 ELSE 128
      img == f.content
      oriented == AutoOrient(img)
      new_size == _downscale_image(oriented.im.size, UploadMaxDimension)
      resized == [oriented.im EXCEPT !.size = new_size, !.exif = "none", !.orientation = 1]
      out == _save_image(resized, f.content_type, f.name)
  IN  IF f.size > MaxSize THEN Reject("File too large")
      ELSE IF f.content_type \notin allowed_mime_types(f.via, f.HEIC_SUPPORT)
              /\ ~(heic /\ f.HEIC_SUPPORT)
      THEN IF heic THEN Reject("HEIC files are not supported")
           ELSE Reject("Unsupported file format")
      ELSE IF ~Decodable(img, f.HEIC_SUPPORT) /\ heic /\ ~f.HEIC_SUPPORT
      THEN Reject("HEIC files are not supported")
      ELSE IF ~Decodable(img, f.HEIC_SUPPORT) /\ heic
      THEN Reject("HEIC file processing failed")
      ELSE IF (~Decodable(img, f.HEIC_SUPPORT) \/ f.first_open_fails) /\ ~heic
      THEN Reject("File is not a valid image or is corrupted")
      ELSE IF f.first_open_fails /\ ~f.HEIC_SUPPORT
      THEN Reject("HEIC files are not supported")
      ELSE IF f.first_open_fails /\ f.via = "form"
      THEN [error |-> "", raised |-> "", ext |-> "", saved |-> NoImage]
      ELSE IF img.size[1] < min \/ img.size[2] < min THEN Reject("Minimum resolution")
      ELSE IF oriented.res = "raise" THEN Crash("exif")
      ELSE IF ResizeRaises(oriented.im.size, UploadMaxDimension) THEN Crash("ValueError")
      ELSE IF out.raised # "" THEN Crash(out.raised)
      ELSE [error |-> "", raised |-> "", ext |-> out.ext, saved |-> out.saved]

\* str(e) of the exception met while validating f: the one Image.open or
\* img.verify raised (forms.py lines 239-241, serializers.py lines 77-79), or
\* the one of the EXIF parser, of img.resize or of the JPEG encoder that leaves
\* the validator; "" when nothing was raised.  r is what validate_image(f)
\* yields
ExceptionMessage(f, r) ==
      CASE r.error \in {"HEIC file processing failed",
                        "File is not a valid image or is corrupted"} ->
             "cannot identify image file"
        [] r.raised = "exif" -> "not enough data"
        [] r.raised = "ValueError" -> "height and width must be > 0"
        [] r.raised = "OSError" ->
             "cannot write mode " \o f.content.mode \o " as JPEG"
        [] OTHER -> ""

\* forms.py lines 215-269, serializers.py lines 55-105: the text of the error
\* the validator reports; two of the texts end with str(e)
ErrorMessage(f, r) ==
      CASE r.error = "HEIC file processing failed" ->
             "HEIC file processing failed. Please try converting to JPEG or PNG. Error: "
               \o ExceptionMessage(f, r)
        [] r.error = "File is not a valid image or is corrupted" ->
             "File is not a valid image or is corrupted: " \o ExceptionMessage(f, r)
        [] OTHER -> r.error

\* an upload reaches a validator: via the form (upload_view, hair_upload_view)
\* or via the API serializer (clothes_try_on, hair_try_on).  first_open_fails:
\* the validator's first Image.open fails on a HEIF file that a second
\* attempt reads (the case _try_heic_processing is written for).  count is
\* how many files arrive for the field, size the byte size of the file
UploadSubmit ==
  /\ pc = "idle"
  /\ \E via \in {"form", "api"}, field \in {"user_photo", "item_photo"},
        HEIC_SUPPORT \in BOOLEAN, count \in {1, 3, 4},
        name \in {"a.jpg", "b.png", "IMG.HEIC", "photo"},
        content_type \in {"image/jpeg", "image/png", "image/heic", "image/bmp",
                          "application/octet-stream"},
        size \in {MaxSize, MaxSize + 1}, content \in Contents,
        first_open_fails \in BOOLEAN :
       /\ first_open_fails => (content.format = "HEIF" /\ HEIC_SUPPORT)
       /\ file' = [via |-> via, field |-> field, HEIC_SUPPORT |-> HEIC_SUPPORT,
                   count |-> count, name |-> name, content_type |-> content_type,
                   size |-> size, content |-> content,
                   first_open_fails |-> first_open_fails]
  /\ op' = "upload"
  /\ pc' = "v_field"
  /\ UNCHANGED <<outcome, image, errors, stored, req, rs>>
  /\ UNCHANGED decodeVars
  /\ UNCHANGED extVars
  /\ UNCHANGED collageVars
  /\ UNCHANGED conc

\* Image.MIME of the formats Pillow (with pillow_heif) identifies
MIME(format) ==
  CASE format = "JPEG" -> "image/jpeg"
    [] format = "PNG" -> "image/png"
    [] format = "WEBP" -> "image/webp"
    [] format = "GIF" -> "image/gif"
    [] format = "BMP" -> "image/bmp"
    [] format = "MPO" -> "image/mpo"
    [] format = "HEIF" -> "image/heif"
    [] OTHER -> "application/octet-stream"

\* The checks of the field itself, before the validator is called.
\* forms.py lines 121-126 and 136-141: MultipleImageField.validate with
\* max_files 1 (user_photo) or 3 (item_photo).  serializers.py lines 200,
\* 211-216: ListField(max_length=3) and ImageField, which rejects a file
\* Pillow cannot identify or whose extension Pillow does not know, and sets
\* content_type to the MIME type of the format it found.
FieldValidate ==
  /\ pc = "v_field"
  /\ LET max_files == IF file.via = "form" /\ file.field = "user_photo" THEN 1 ELSE 3
         known == {"jpg", "png"} \cup (IF file.HEIC_SUPPORT THEN {"heic"} ELSE {})
         refuse(kind) == /\ errors' = Append(errors, [field |-> file.field, kind |-> kind,
                                                      text |-> kind, raw |-> ""])
                         /\ outcome' = "rejected"
                         /\ pc' = "done"
                         /\ file' = file
     IN  IF file.via = "form"
         THEN IF file.count > max_files THEN refuse("Maximum files allowed")
              ELSE /\ pc' = "v_image"
                   /\ UNCHANGED <<file, errors, outcome>>
         ELSE IF file.field = "item_photo" /\ file.count > max_files
              THEN refuse("max_length")
              ELSE IF ~Decodable(file.content, file.HEIC_SUPPORT) THEN refuse("invalid_image")
              ELSE IF file_extension(file.name) \notin known THEN refuse("invalid_extension")
              ELSE /\ file' = [file EXCEPT !.content_type = MIME(file.content.format)]
                   /\ pc' = "v_image"
                   /\ UNCHANGED <<errors, outcome>>
  /\ UNCHANGED <<op, image, stored, req, rs>>
  /\ UNCHANGED decodeVars
  /\ UNCHANGED extVars
  /\ UNCHANGED collageVars
  /\ UNCHANGED conc

\* The error reported for file f, the i-th of its field, when its validator
\* reports one or raises (r is what validate_image(f) yields).  forms.py lines 188-190, 215-269: an item is
\* validated with field_name "item_photo_<i>", which is not a field of the
\* form, so add_error itself raises, and that and every other exception are
\* caught and reported on item_photo with str(e).  serializers.py lines
\* 55-105, 234-236: a ValidationError is the field's error, and is wrapped
\* with any other exception into a ValidationError for an item.
Reported(f, r, i) ==
  LET item == f.field = "item_photo"
      number == CASE i = 1 -> "1" [] i = 2 -> "2" [] OTHER -> "3"
      wrapped(e) == "Error processing item photo " \o number \o ": " \o e
      no_field == "'UploadForm' has no field named 'item_photo_"
                    \o (CASE i = 1 -> "0" [] i = 2 -> "1" [] OTHER -> "2") \o "'."
  IN  IF r.error # "" /\ f.via = "form" /\ item
      THEN [field |-> f.field, kind |-> "Error processing item photo",
            text |-> wrapped(no_field), raw |-> no_field]
      ELSE IF r.error # "" /\ item
      THEN [field |-> f.field, kind |-> r.error,
            text |-> wrapped("[ErrorDetail(string='" \o ErrorMessage(f, r)
                               \o "', code='invalid')]"),
            raw |-> ExceptionMessage(f, r)]
      ELSE IF r.error # ""
      THEN [field |-> f.field, kind |-> r.error,
            text |-> ErrorMessage(f, r), raw |-> ExceptionMessage(f, r)]
      ELSE [field |-> f.field, kind |-> "Error processing item photo",
            text |-> wrapped(ExceptionMessage(f, r)), raw |-> ExceptionMessage(f, r)]

\* The validator runs on the file, and its caller reports what it did.
\* forms.py lines 146-195 (clean): for user_photo the error goes to the field
\* and an exception leaves clean(); for an item photo the validator is called
\* with field_name "item_photo_<i>", which is not a field of the form, so
\* add_error itself raises, and that and every other exception are caught
\* and reported on item_photo.  serializers.py lines 205-206, 221-238: a
\* ValidationError is the field's error, any other exception leaves
\* validate_user_photo, and is wrapped into a ValidationError for an item.
\* A validator that returns None leaves no error and no file: the form keeps
\* the uploaded file as user_photo, and skips the item (forms.py lines 158,
\* 184-188).
ValidateImage ==
  /\ pc = "v_image"
  /\ LET r == validate_image(file)
         item == file.field = "item_photo"
     IN  IF r.error # "" \/ (r.raised # "" /\ item)
         THEN /\ errors' = Append(errors, Reported(file, r, 1))
              /\ outcome' = "rejected"
              /\ UNCHANGED <<image, stored>>
         ELSE IF r.raised # ""
         THEN /\ outcome' = "raise"
              /\ UNCHANGED <<image, stored, errors>>
         ELSE IF r.saved = NoImage
         THEN /\ outcome' = "None"
              /\ UNCHANGED <<image, stored, errors>>
         ELSE /\ stored' = Append(stored, [ext |-> r.ext, im |-> r.saved])
              /\ image' = r.saved
              /\ outcome' = "path"
              /\ errors' = errors
  /\ pc' = "done"
  /\ UNCHANGED <<op, file, req, rs>>
  /\ UNCHANGED decodeVars
  /\ UNCHANGED extVars
  /\ UNCHANGED collageVars
  /\ UNCHANGED conc

-----------------------------------------------------------------------------
(* A try-on request: clothes_try_on and hair_try_on (api/views.py), and     *)
(* process_view and hair_process_view (views.py).  The four run the same    *)
(* steps on a user photo that validation accepted and stored.               *)

\* the item paths of the request (stored uploads, one of them unreadable)
TryOnItems == {<<"uploads/a.jpg">>, <<"uploads/a.jpg", "uploads/b.png">>,
               <<"uploads/bad.jpg">>}

\* api/views.py lines 165-178, 292-305: serializer.is_valid() has accepted the
\* uploads; views.py lines 117-123, 315-321: the session holds the paths the
\* form stored.  USE_GEMINI is the setting, prompt the text handed to the
\* placeholder (user_prompt in the API, additional_prompt in the web views),
\* user_prompt the prompt of the upload.
TryOnStart ==
  /\ pc = "done" /\ op = "upload" /\ outcome = "path"
  /\ file.field = "user_photo"
  /\ \E view \in IF file.via = "api" THEN {"clothes_try_on", "hair_try_on"}
                  ELSE {"process_view", "hair_process_view"},
        USE_GEMINI \in BOOLEAN, items \in TryOnItems, prompt \in Prompts,
        user_prompt \in Prompts :
       /\ file.via = "api" => user_prompt = prompt
       /\ req' = [view |-> view, USE_GEMINI |-> USE_GEMINI, items |-> items,
                  prompt |-> prompt, user_prompt |-> user_prompt,
                  use_mask |-> FALSE, mask_img_path |-> "",
                  user |-> stored[1], combined |-> "none",
                  ai |-> "none", sent |-> [prompt |-> "", mask_img_path |-> ""],
                  placeholder |-> "none", response |-> "none",
                  flash |-> "", raw |-> ""]
       /\ pc' = IF view = "process_view" THEN "t_mask" ELSE "t_combine"
  /\ op' = "try_on"
  /\ outcome' = "none"
  /\ UNCHANGED <<file, image, errors, stored, rs>>
  /\ UNCHANGED decodeVars
  /\ UNCHANGED extVars
  /\ UNCHANGED collageVars
  /\ UNCHANGED conc

\* what the client may post as selection_mask: nothing, a data URI, a text
\* without a comma
Masks == {"", "data:image/png;base64,iVBORw==", "iVBORw"}

\* views.py lines 132-157 (process_view): use_mask is set as soon as a mask
\* was posted; the mask is split at the comma, decoded and saved under
\* masks/, and when any of that raises the error is logged and flashed and
\* mask_img_path stays None
TryOnMask ==
  /\ pc = "t_mask"
  /\ \E selection_mask_base64 \in Masks, saved \in BOOLEAN :
       LET posted == selection_mask_base64 # ""
           decoded == Contains(selection_mask_base64, ",")
       IN  /\ ~(posted /\ decoded) => saved
           /\ req' = [req EXCEPT !.use_mask = posted,
                                 !.mask_img_path = IF posted /\ decoded /\ saved
                                                   THEN "masks/mask.png" ELSE ""]
  /\ pc' = "t_combine"
  /\ UNCHANGED <<op, outcome, file, image, errors, stored, rs>>
  /\ UNCHANGED decodeVars
  /\ UNCHANGED extVars
  /\ UNCHANGED collageVars
  /\ UNCHANGED conc

\* views.py lines 77-108, api/views.py lines 28-60: build_prompt (the fixed
\* sections shortened to their headings)
build_prompt(user_prompt, additional_prompt, use_mask) ==
  "[TASK][ASSETS][PLACEMENT][CONSTRAINTS][STYLE][OUTPUT][FAIL IF][NEGATIVE]"
    \o (IF user_prompt # "" THEN "[USER]" \o user_prompt ELSE "")
    \o (IF additional_prompt # "" THEN "[USER-SPECIFIC]" \o additional_prompt ELSE "")
    \o (IF use_mask THEN "[MASK]Use the provided binary MASK over the item image." ELSE "")

\* views.py lines 273-305, api/views.py lines 63-98: build_hair_prompt
build_hair_prompt(user_prompt, additional_prompt) ==
  "[TASK][ASSETS][PLACEMENT][BLENDING][CONSTRAINTS][STYLE][OUTPUT][NEGATIVE]"
    \o (IF user_prompt # "" THEN "[USER]" \o user_prompt ELSE "")
    \o (IF additional_prompt # "" THEN "[USER-SPECIFIC]" \o additional_prompt ELSE "")

AfterCombine_Regardless(combined, USE_GEMINI) ==
  IF USE_GEMINI THEN "t_ai" ELSE "t_placeholder"

\* api/views.py lines 186-202, views.py lines 164-174: the step that follows
\* the collage; the except clause returns the failure response
AfterCombine(combined, USE_GEMINI) ==
  IF combined = "raise" THEN "done"
  ELSE IF USE_GEMINI THEN "t_ai" ELSE "t_placeholder"

\* api/views.py lines 186-197, 313-323; views.py lines 164-170, 330-335:
\* combine_item_images on the item paths, which returns once the combined
\* file is written and raises when a path is rejected, a file does not load
\* or the file system refuses the write; when it raises the request ends
\* with COMBINE_ERROR (API) or a redirect to the upload page (web)
TryOnCombine ==
  /\ pc = "t_combine"
  /\ LET loaded == \A i \in 1..Len(req.items) :
                     /\ PathGuard(Resolved[req.items[i]])
                     /\ Loaded[Resolved[req.items[i]]].item.res = "ok"
         images == [i \in 1..Len(req.items) |-> Loaded[Resolved[req.items[i]]].item.size]
         end(combined) ==
           /\ req' = [req EXCEPT !.combined = combined,
                                 !.response = IF combined = "raise" THEN "COMBINE_ERROR"
                                              ELSE "none"]
           /\ pc' = AfterCombine(combined, req.USE_GEMINI)
           /\ outcome' = IF combined = "raise" THEN "error" ELSE outcome
     IN  IF loaded
         THEN \/ /\ written' = written \cup
                       {[kind |-> "combined_items", size |-> Collage(images).size]}
                 /\ end("path")
              \/ /\ written' = written
                 /\ end("raise")
         ELSE /\ written' = written
              /\ end("raise")
  /\ UNCHANGED <<op, file, image, errors, stored, rs>>
  /\ UNCHANGED <<paths, idx, opened, item_images, layout, err>>
  /\ UNCHANGED decodeVars
  /\ UNCHANGED extVars
  /\ UNCHANGED conc

\* views.py lines 172-178, 337-343, api/views.py lines 199-206, 326-333: the
\* prompt is built and handed to the AI client with the mask path.
\* gemini_client.py lines 20-72: try_on_item returns the path of the image the
\* model sent, or raises ValueError when the call fails or the response holds
\* no image; the views then fall back to the placeholder.  views.py lines
\* 180-183, 344-347: the web views flash a message that holds str(e) (the
\* Ukrainian texts of hair_process_view are given in English)
TryOnAI ==
  /\ pc = "t_ai"
  /\ \E ai \in {"image", "error", "no_image"} :
       LET raw == CASE ai = "error" -> "504 Deadline Exceeded"
                    [] ai = "no_image" -> "Gemini API response does not contain an image."
                    [] OTHER -> ""
           e == "Gemini API error: " \o raw
           additional_prompt == IF file.via = "api" THEN "" ELSE req.prompt
           prompt == IF req.view \in {"hair_try_on", "hair_process_view"}
                     THEN build_hair_prompt(req.user_prompt, additional_prompt)
                     ELSE build_prompt(req.user_prompt, additional_prompt, req.use_mask)
       IN
       /\ req' = [req EXCEPT !.ai = ai,
                             !.sent = [prompt |-> prompt,
                                       mask_img_path |-> req.mask_img_path],
                             !.raw = raw,
                             !.flash =
                               CASE ai = "image" /\ file.via = "form" ->
                                      "Image successfully processed with Gemini!"
                                 [] ai # "image" /\ req.view = "process_view" ->
                                      "Error processing images with AI: " \o e
                                        \o ". Showing temporary preview."
                                 [] ai # "image" /\ req.view = "hair_process_view" ->
                                      "AI processing error: " \o e
                                        \o ". Showing a temporary preview."
                                 [] OTHER -> ""]
       /\ pc' = IF ai = "image" THEN "t_respond" ELSE "t_placeholder"
  /\ UNCHANGED <<op, outcome, file, image, errors, stored, rs>>
  /\ UNCHANGED decodeVars
  /\ UNCHANGED extVars
  /\ UNCHANGED collageVars
  /\ UNCHANGED conc

\* image_utils.py lines 16-77 on the stored user photo, called inside
\* try/except Exception that only logs (api/views.py lines 211-224, 337-350;
\* views.py lines 185-197, 348-360): the stored file is under MEDIA_ROOT and opens, its size is
\* not zero and carries no EXIF; it is downscaled, written on and saved as
\* JPEG, which the file system may refuse
TryOnPlaceholder ==
  /\ pc = "t_placeholder"
  /\ LET user_img == req.user.im
         out == PlaceholderSave(user_img.mode, req.prompt)
         fail(cause, raw) == /\ req' = [req EXCEPT !.placeholder = "raise"]
                             /\ err' = PlaceholderError(cause, raw)
                             /\ written' = written
     IN  IF ResizeRaises(user_img.size, PlaceholderMaxDimension)
         THEN fail("ValueError", "height and width must be > 0")
         ELSE IF out.res # "ok" THEN fail(out.res, out.raw)
         ELSE \/ /\ req' = [req EXCEPT !.placeholder = "path"]
                 /\ written' = written \cup
                      {[kind |-> "placeholder",
                        size |-> _downscale_image(user_img.size, PlaceholderMaxDimension)]}
                 /\ err' = err
              \/ fail("OSError", "[Errno 28] No space left on device")
  /\ pc' = "t_respond"
  /\ UNCHANGED <<op, outcome, file, image, errors, stored, rs>>
  /\ UNCHANGED <<paths, idx, opened, item_images, layout>>
  /\ UNCHANGED decodeVars
  /\ UNCHANGED extVars
  /\ UNCHANGED conc

\* api/views.py lines 226-239, 352-365; views.py lines 200-205, 363-368: the
\* result when there is a result path, else PROCESS_ERROR (API) or the error
\* message and a redirect to the upload page (web)
TryOnRespond ==
  /\ pc = "t_respond"
  /\ LET all_result_paths == req.ai = "image" \/ req.placeholder = "path"
     IN  /\ req' = [req EXCEPT !.response = IF all_result_paths THEN "result"
                                            ELSE "PROCESS_ERROR"]
         /\ outcome' = IF all_result_paths THEN "path" ELSE "error"
  /\ pc' = "done"
  /\ UNCHANGED <<op, file, image, errors, stored, rs>>
  /\ UNCHANGED decodeVars
  /\ UNCHANGED extVars
  /\ UNCHANGED collageVars
  /\ UNCHANGED conc

-----------------------------------------------------------------------------
(* A whole upload request: upload_view and hair_upload_view (views.py) with *)
(* UploadForm.clean, clothes_try_on and hair_try_on (api/views.py) with     *)
(* UploadSerializer.validate.  One user photo and the item photos are       *)
(* validated in order, each stored by its validator as soon as it passes.   *)

\* the most item photos a modelled request carries
MaxRequestItems == 2

\* The files a request may carry: a photo that passes, one below the minimum
\* resolution, a PNG, a PNG with transparency declared as JPEG, a HEIF file
\* that only the second attempt reads, a file that is no image
RequestUploads ==
  {[name |-> "a.jpg", content_type |-> "image/jpeg", first_open_fails |-> FALSE,
    content |-> Picture("JPEG", "RGB", FALSE, <<300, 300>>, "none", 1)],
   [name |-> "a.jpg", content_type |-> "image/jpeg", first_open_fails |-> FALSE,
    content |-> Picture("JPEG", "RGB", FALSE, <<127, 500>>, "none", 1)],
   [name |-> "b.png", content_type |-> "image/png", first_open_fails |-> FALSE,
    content |-> Picture("PNG", "RGBA", FALSE, <<300, 300>>, "none", 1)],
   [name |-> "b.png", content_type |-> "image/jpeg", first_open_fails |-> FALSE,
    content |-> Picture("PNG", "RGBA", FALSE, <<300, 300>>, "none", 1)],
   [name |-> "IMG.HEIC", content_type |-> "image/heic", first_open_fails |-> TRUE,
    content |-> Picture("HEIF", "RGB", FALSE, <<300, 300>>, "none", 1)],
   [name |-> "a.jpg", content_type |-> "image/jpeg", first_open_fails |-> FALSE,
    content |-> Picture("", "RGB", FALSE, <<300, 300>>, "none", 1)]}

\* the upload u as the validator of the field sees it, on a server with HEIC
\* support; the serializer's ImageField has set content_type from the format
AsFile(u, view, field) ==
  LET via == IF view \in {"clothes_try_on", "hair_try_on"} THEN "api" ELSE "form"
  IN  [via |-> via, field |-> field, HEIC_SUPPORT |-> TRUE, count |-> 1,
       name |-> u.name, size |-> MaxSize, content |-> u.content,
       content_type |-> IF via = "api" THEN MIME(u.content.format) ELSE u.content_type,
       first_open_fails |-> u.first_open_fails]

\* views.py lines 23-32, 224-227, api/views.py lines 163-165, 290-292: the
\* POST arrives with its files
RequestStart ==
  /\ pc = "idle"
  /\ \E view \in {"upload_view", "hair_upload_view", "clothes_try_on", "hair_try_on"},
        user \in RequestUploads, n \in 1..MaxRequestItems :
       \E items \in [1..n -> RequestUploads] :
         req' = [view |-> view, user |-> user, items |-> items, k |-> 0,
                 user_photo |-> "none", item_photo |-> <<>>,
                 valid |-> FALSE, stray |-> FALSE, session |-> "none",
                 page |-> "none"]
  /\ op' = "request"
  /\ pc' = "q_field"
  /\ UNCHANGED <<outcome, file, image, errors, stored, rs>>
  /\ UNCHANGED decodeVars
  /\ UNCHANGED extVars
  /\ UNCHANGED collageVars
  /\ UNCHANGED conc

\* forms.py lines 121-126: the counts are within max_files.  serializers.py
\* lines 257-262: ImageField refuses each file Pillow cannot identify, before
\* validate() is called
RequestFields ==
  /\ pc = "q_field"
  /\ LET api == req.view \in {"clothes_try_on", "hair_try_on"}
         bad(u) == ~Decodable(u.content, TRUE)
         refused == (IF bad(req.user)
                     THEN <<[field |-> "user_photo", kind |-> "invalid_image",
                             text |-> "invalid_image", raw |-> ""]>>
                     ELSE <<>>)
                    \o (IF \E i \in 1..Len(req.items) : bad(req.items[i])
                        THEN <<[field |-> "item_photo", kind |-> "invalid_image",
                                text |-> "invalid_image", raw |-> ""]>>
                        ELSE <<>>)
     IN  IF api /\ refused # <<>>
         THEN /\ errors' = refused
              /\ outcome' = "rejected"
              /\ pc' = "done"
         ELSE /\ pc' = "q_user"
              /\ UNCHANGED <<errors, outcome>>
  /\ UNCHANGED <<op, file, image, stored, req, rs>>
  /\ UNCHANGED decodeVars
  /\ UNCHANGED extVars
  /\ UNCHANGED collageVars
  /\ UNCHANGED conc

\* forms.py lines 151-162: the user photo is validated and stored; with an
\* error clean() goes on to the items, and without a path cleaned_data keeps
\* the uploaded file.  serializers.py lines 278-285: a refused user photo
\* ends validate().  An exception other than the validator's own leaves both
RequestUser ==
  /\ pc = "q_user"
  /\ LET f == AsFile(req.user, req.view, "user_photo")
         r == validate_image(f)
     IN  IF r.error # ""
         THEN /\ errors' = Append(errors, Reported(f, r, 1))
              /\ UNCHANGED <<stored, req>>
              /\ IF f.via = "api"
                 THEN outcome' = "rejected" /\ pc' = "done"
                 ELSE outcome' = outcome /\ pc' = "q_item"
         ELSE IF r.raised # ""
         THEN /\ outcome' = "raise"
              /\ pc' = "done"
              /\ UNCHANGED <<stored, errors, req>>
         ELSE IF r.saved = NoImage
         THEN /\ req' = [req EXCEPT !.user_photo = "file"]
              /\ pc' = "q_item"
              /\ UNCHANGED <<stored, errors, outcome>>
         ELSE /\ stored' = Append(stored, [ext |-> r.ext, im |-> r.saved])
              /\ req' = [req EXCEPT !.user_photo = "path"]
              /\ pc' = "q_item"
              /\ UNCHANGED <<errors, outcome>>
  /\ UNCHANGED <<op, file, image, rs>>
  /\ UNCHANGED decodeVars
  /\ UNCHANGED extVars
  /\ UNCHANGED collageVars
  /\ UNCHANGED conc

\* forms.py lines 179-192: one turn of the loop over the item photos; a path
\* is appended to processed_paths, None is skipped, an exception becomes an
\* error of item_photo and the loop goes on.  serializers.py lines 226-238:
\* the same loop, which an exception ends
RequestItem ==
  /\ pc = "q_item"
  /\ LET i == req.k + 1
         f == AsFile(req.items[i], req.view, "item_photo")
         r == validate_image(f)
         next == IF i = Len(req.items) THEN "q_end" ELSE "q_item"
     IN  IF r.error # "" \/ r.raised # ""
         THEN /\ errors' = Append(errors, Reported(f, r, i))
              /\ stored' = stored
              /\ req' = [req EXCEPT !.k = i]
              /\ IF f.via = "api"
                 THEN outcome' = "rejected" /\ pc' = "done"
                 ELSE outcome' = outcome /\ pc' = next
         ELSE IF r.saved = NoImage
         THEN /\ req' = [req EXCEPT !.k = i]
              /\ pc' = next
              /\ UNCHANGED <<stored, errors, outcome>>
         ELSE /\ stored' = Append(stored, [ext |-> r.ext, im |-> r.saved])
              /\ req' = [req EXCEPT !.k = i,
                                    !.item_photo = Append(@, Len(stored) + 1)]
              /\ pc' = next
              /\ UNCHANGED <<errors, outcome>>
  /\ UNCHANGED <<op, file, image, rs>>
  /\ UNCHANGED decodeVars
  /\ UNCHANGED extVars
  /\ UNCHANGED collageVars
  /\ UNCHANGED conc

\* views.py lines 41-46, 235-240: save_memfile(memfile) creates
\* <uuid4>.webp and calls memfile.read().  cleaned_data holds the path (a
\* str) the validator returned, or the list of uploaded files when it
\* returned None: neither has read(), so AttributeError is raised after the
\* empty file was created
save_memfile(memfile) == [raised |-> "AttributeError", stray |-> TRUE]

\* views.py lines 33-58, 228-252: with a valid form the view saves the
\* cleaned files, stores the paths in the session and redirects to the
\* preview; with errors it renders the form again.  api/views.py lines
\* 167-180, 294-307: 400 with the errors, or the try-on goes on
RequestRespond ==
  /\ pc = "q_end"
  /\ LET api == req.view \in {"clothes_try_on", "hair_try_on"}
         saved == save_memfile(req.user_photo)
     IN  IF errors # <<>>
         THEN /\ outcome' = "rejected"
              /\ req' = [req EXCEPT !.page = IF api THEN "400" ELSE "upload"]
         ELSE IF api
         THEN /\ outcome' = "accepted"
              /\ req' = [req EXCEPT !.valid = TRUE]
         ELSE IF saved.raised # ""
         THEN /\ outcome' = "raise"
              /\ req' = [req EXCEPT !.valid = TRUE, !.stray = saved.stray]
         ELSE /\ outcome' = "redirect"
              /\ req' = [req EXCEPT !.valid = TRUE, !.session = "upload",
                                    !.page = "preview"]
  /\ pc' = "done"
  /\ UNCHANGED <<op, file, image, errors, stored, rs>>
  /\ UNCHANGED decodeVars
  /\ UNCHANGED extVars
  /\ UNCHANGED collageVars
  /\ UNCHANGED conc

\* views.py lines 61-75, 256-270 (and 117-119, 315-317 for the process
\* views): the next GET of the preview finds the session entry, or redirects
\* to the upload page
PreviewView ==
  /\ pc = "done" /\ op = "request"
  /\ req.view \in {"upload_view", "hair_upload_view"}
  /\ req.page \notin {"preview", "redirect_upload"}
  /\ req' = [req EXCEPT !.page = IF req.session = "none" THEN "redirect_upload"
                                 ELSE "preview"]
  /\ UNCHANGED <<pc, op, outcome, file, image, errors, stored, rs>>
  /\ UNCHANGED decodeVars
  /\ UNCHANGED extVars
  /\ UNCHANGED collageVars
  /\ UNCHANGED conc

-----------------------------------------------------------------------------
(* Pipeline invocations running side by side: normalize_to_webp, its        *)
(* external-converter rung, the validators' _save_image, the collage, the   *)
(* placeholder and the AI result save.  Each takes its steps in program     *)
(* order; the steps of different invocations interleave freely.  What they  *)
(* share is the file system and Pillow's registry of openers, which the     *)
(* import of forms.py, serializers.py and image_utils.py has already filled.*)

\* how many invocations run side by side
MaxInvocations == 2

\* uuid.uuid4(), given the names drawn so far: a version-4 UUID is taken to
\* differ from every UUID drawn before
uuid4_Fixed(names) == 1

uuid4(names) == CHOOSE n \in 1..(Cardinality(names) + 1) : n \notin names

\* tempfile.mkdtemp(prefix="heic_conv_") (line 49), given the directories
\* that exist: it creates one that did not exist
mkdtemp(dirs) == CHOOSE n \in 1..(Cardinality(dirs) + 1) : n \notin dirs

\* open(path, 'wb') or img.save(path) by invocation i: the file is created,
\* or an existing one overwritten
WriteFile(files, path, content, i) ==
  LET old == {f \in files : f.path = path}
  IN  (files \ old) \cup
        {[path |-> path, content |-> content,
          writers |-> UNION {f.writers : f \in old} \cup {i}]}

\* invocation i went on to step at, with the shared state as given; the
\* run is over when every invocation has returned
ConcGoes(inv, shared) ==
  /\ conc' = [shared EXCEPT !.inv = inv]
  /\ pc' = IF \A j \in DOMAIN inv : inv[j].at = "done" THEN "done" ELSE "c_run"

\* the invocations are called, each on its own input bytes
ConcStart ==
  /\ pc = "idle"
  /\ \E kinds \in [1..MaxInvocations ->
                     {"normalize", "external", "upload", "collage",
                      "placeholder", "ai_result"}],
        datas \in [1..MaxInvocations -> {"bytes a", "bytes b"}] :
       conc' = [NoConc EXCEPT !.inv =
                  [i \in 1..MaxInvocations |->
                     [kind |-> kinds[i], data |-> datas[i], at |-> "start",
                      name |-> 0, dir |-> 0, result |-> "none"]]]
  /\ op' = "concurrent"
  /\ pc' = "c_run"
  /\ UNCHANGED <<up, attempted, outcome>>
  /\ UNCHANGED extVars
  /\ UNCHANGED collageVars
  /\ UNCHANGED uploadVars

\* image_processing.py lines 97-221, one step of an invocation: line 102
\* registers the HEIF opener again (the registry holds it already), then the
\* bytes are decoded with the registered openers and the result is encoded
\* into a buffer of the call
ConcNormalize ==
  /\ pc = "c_run"
  /\ \E i \in DOMAIN conc.inv :
       LET me == conc.inv[i]
       IN  /\ me.kind = "normalize"
           /\ \/ /\ me.at = "start"
                 /\ ConcGoes([conc.inv EXCEPT ![i].at = "decode"],
                             [conc EXCEPT !.registered = TRUE])
              \/ /\ me.at = "decode"
                 /\ ConcGoes([conc.inv EXCEPT ![i].at = "done",
                                              ![i].result = IF conc.registered
                                                            THEN me.data ELSE "error"],
                             conc)
  /\ UNCHANGED <<op, up, attempted, outcome>>
  /\ UNCHANGED extVars
  /\ UNCHANGED collageVars
  /\ UNCHANGED uploadVars

\* image_processing.py lines 48-90, one step of an invocation whose tool
\* works: mkdtemp (line 49), the input file written (52-55), the tool run on
\* it, writing output.png (60-76), the output read (78-84), the directory
\* removed (85-90)
ConcExternal ==
  /\ pc = "c_run"
  /\ \E i \in DOMAIN conc.inv :
       LET me == conc.inv[i]
           tmp_in == <<"heic_conv", me.dir, "input">>
           tmp_out == <<"heic_conv", me.dir, "output.png">>
           at(path) == {f \in conc.files : f.path = path}
           mine == {f \in conc.files : f.path[1] = "heic_conv" /\ f.path[2] = me.dir}
           others(fs) == \E f \in fs : f.writers # {i}
       IN  /\ me.kind = "external"
           /\ \/ /\ me.at = "start"
                 /\ ConcGoes([conc.inv EXCEPT ![i].at = "write",
                                              ![i].dir = mkdtemp(conc.dirs)],
                             [conc EXCEPT !.dirs = @ \cup {mkdtemp(conc.dirs)}])
              \/ /\ me.at = "write"
                 /\ ConcGoes([conc.inv EXCEPT ![i].at = "tool"],
                             [conc EXCEPT !.files = WriteFile(@, tmp_in, me.data, i),
                                          !.foreign = @ \/ others(at(tmp_in))])
              \/ /\ me.at = "tool"
                 /\ ConcGoes([conc.inv EXCEPT ![i].at = "read"],
                             [conc EXCEPT
                                !.files = IF at(tmp_in) = {} THEN @
                                          ELSE WriteFile(@, tmp_out,
                                                 (CHOOSE f \in at(tmp_in) : TRUE).content, i),
                                !.foreign = @ \/ others(at(tmp_in) \cup at(tmp_out))])
              \/ /\ me.at = "read"
                 /\ ConcGoes([conc.inv EXCEPT
                                ![i].at = "rmtree",
                                ![i].result = IF at(tmp_out) = {} THEN "error"
                                              ELSE (CHOOSE f \in at(tmp_out) : TRUE).content],
                             [conc EXCEPT !.foreign = @ \/ others(at(tmp_out))])
              \/ /\ me.at = "rmtree"
                 /\ ConcGoes([conc.inv EXCEPT ![i].at = "done"],
                             [conc EXCEPT !.files = @ \ mine,
                                          !.dirs = @ \ {me.dir},
                                          !.foreign = @ \/ others(mine)])
  /\ UNCHANGED <<op, up, attempted, outcome>>
  /\ UNCHANGED extVars
  /\ UNCHANGED collageVars
  /\ UNCHANGED uploadVars

\* serializers.py lines 139-175 and forms.py lines 304-339 (_save_image),
\* image_utils.py lines 150-166 and 41-60, gemini_client.py lines 53-63, one
\* step of an invocation: os.makedirs(exist_ok=True) and the name with
\* uuid.uuid4(), then the image saved under that name
ConcSaveFile ==
  /\ pc = "c_run"
  /\ \E i \in DOMAIN conc.inv :
       LET me == conc.inv[i]
           full_path == <<me.kind, me.name>>
           old == {f \in conc.files : f.path = full_path}
       IN  /\ me.kind \in {"upload", "collage", "placeholder", "ai_result"}
           /\ \/ /\ me.at = "start"
                 /\ ConcGoes([conc.inv EXCEPT ![i].at = "save",
                                              ![i].name = uuid4(conc.names)],
                             [conc EXCEPT !.names = @ \cup {uuid4(conc.names)}])
              \/ /\ me.at = "save"
                 /\ ConcGoes([conc.inv EXCEPT ![i].at = "done",
                                              ![i].result = me.data],
                             [conc EXCEPT
                                !.files = WriteFile(@, full_path, me.data, i),
                                !.foreign = @ \/ (\E f \in old : f.writers # {i})])
  /\ UNCHANGED <<op, up, attempted, outcome>>
  /\ UNCHANGED extVars
  /\ UNCHANGED collageVars
  /\ UNCHANGED uploadVars

\* the call is over; the next one starts from a fresh frame
Reset ==
  /\ pc = "done"
  /\ pc' = "idle"
  /\ op' = "none"
  /\ up' = NoUpload
  /\ attempted' = <<>>
  /\ outcome' = "none"
  /\ hint' = ""
  /\ tmp' = NoTmp
  /\ loc' = NoLoc
  /\ proc' = NoProc
  /\ created' = {}
  /\ paths' = <<>>
  /\ idx' = 0
  /\ opened' = <<>>
  /\ item_images' = <<>>
  /\ layout' = NoLayout
  /\ written' = {}
  /\ err' = NoError
  /\ file' = NoFile
  /\ image' = NoImage
  /\ errors' = <<>>
  /\ stored' = <<>>
  /\ req' = NoRequest
  /\ rs' = NoResize
  /\ conc' = NoConc

ExtNext ==
  \/ ExtMkdtemp
  \/ ExtWriteInput
  \/ ExtResolve
  \/ ExtSpawn
  \/ ExtProcReturn
  \/ ExtReadOutput
  \/ ExtFinally

NextDecode ==
  \/ NormalizeStart
  \/ TryImageOpen
  \/ TryOpenHeif
  \/ TryReadHeif
  \/ TryPyheif
  \/ CallExternal
  \/ RaiseNonHeif
  \/ NormalizeReturn
  \/ ExtNext
  \/ Reset

SpecDecode == Init /\ [][NextDecode]_vars

NextCollage ==
  \/ CombineStart
  \/ CombineGuard
  \/ CombineLoad
  \/ CombineSave
  \/ PlaceholderStart
  \/ PlaceholderGuard
  \/ PlaceholderBuild
  \/ Reset

SpecCollage == Init /\ [][NextCollage]_vars

NextResize ==
  \/ ResizeCall
  \/ ResizeAgain
  \/ Reset

SpecResize == Init /\ [][NextResize]_vars

NextUpload ==
  \/ UploadSubmit
  \/ FieldValidate
  \/ ValidateImage
  \/ Reset

SpecUpload == Init /\ [][NextUpload]_vars

NextTryOn ==
  \/ UploadSubmit
  \/ FieldValidate
  \/ ValidateImage
  \/ TryOnStart
  \/ TryOnMask
  \/ TryOnCombine
  \/ TryOnAI
  \/ TryOnPlaceholder
  \/ TryOnRespond
  \/ Reset

SpecTryOn == Init /\ [][NextTryOn]_vars

NextRequest ==
  \/ RequestStart
  \/ RequestFields
  \/ RequestUser
  \/ RequestItem
  \/ RequestRespond
  \/ PreviewView
  \/ Reset

SpecRequest == Init /\ [][NextRequest]_vars

NextConcurrent ==
  \/ ConcStart
  \/ ConcNormalize
  \/ ConcExternal
  \/ ConcSaveFile
  \/ Reset

SpecConcurrent == Init /\ [][NextConcurrent]_vars

Next ==
  \/ NextDecode \/ NextCollage \/ NextResize \/ NextUpload \/ NextTryOn
  \/ NextRequest \/ NextConcurrent

Spec == Init /\ [][Next]_vars

-----------------------------------------------------------------------------
(* Properties of the decoder chain (checked under SpecDecode).             *)

C1_Order == <<"Image.open", "open_heif", "read_heif", "pyheif", "external">>

C1_Rank(rung) == CHOOSE i \in 1..Len(C1_Order) : C1_Order[i] = rung

\* C1: the rungs are tried in the order Image.open, open_heif, read_heif,
\* pyheif, external converter; a rung is tried only after every rung tried
\* before it has failed; a rung that succeeds ends the chain; and the call
\* raises a decode error (one raised before the decoded image is processed)
\* only when every rung it tried has failed.
C1_DecoderOrder ==
  /\ \A i \in 1..Len(attempted) :
       /\ i = 1 => attempted[i].rung = "Image.open"
       /\ i > 1 => /\ C1_Rank(attempted[i - 1].rung) < C1_Rank(attempted[i].rung)
                   /\ attempted[i - 1].res = "fail"
  /\ (\E i \in 1..Len(attempted) : attempted[i].res = "ok") => pc \in {"n_post", "done"}
  /\ (op = "normalize" /\ outcome = "raise" /\ image = NoImage) =>
       /\ Len(attempted) > 0
       /\ \A i \in 1..Len(attempted) : attempted[i].res = "fail"
  /\ (op = "normalize" /\ outcome = "image") => attempted[Len(attempted)].res = "ok"

\* the whole ladder was climbed and the last rung, the external converter, decoded the image
C1_Witness ==
  /\ op = "normalize" /\ pc = "done" /\ outcome = "image"
  /\ [i \in 1..Len(attempted) |-> attempted[i].rung] = C1_Order

\* what the claims call a HEIC/HEIF/AVIF input: the sniffed MIME type or the
\* (lower-cased) file name says so
C_HeifFamily(u) ==
  \/ \E x \in {"heic", "heif", "avif"} : Contains(u.mime, x)
  \/ \E e \in {".heic", ".heif", ".avif"} : EndsWith(Lower(u.name), e)

\* C2 as stated: for an input that is not HEIC/HEIF/AVIF, once Image.open has
\* failed no further rung is tried and the call ends with an error.
C2_NoRungAfterGeneralDecoder ==
  (op = "normalize" /\ ~C_HeifFamily(up) /\ Len(attempted) >= 1 /\ attempted[1].res = "fail") =>
    /\ Len(attempted) = 1
    /\ pc = "done" => outcome = "raise"

\* C2 as amended: for an input that is not HEIC/HEIF/AVIF, once Image.open,
\* open_heif and read_heif have all failed, neither pyheif nor the external
\* converter is tried and the call ends with an error.
C2_NoRungAfterPillowHeif ==
  (op = "normalize" /\ ~C_HeifFamily(up) /\ Len(attempted) >= 3 /\ attempted[3].res = "fail") =>
    /\ Len(attempted) = 3
    /\ pc \in {"n_raise", "done"}
    /\ pc = "done" => outcome = "raise"
    /\ proc.spawned = 0

\* a JPEG-named upload no in-process decoder could read: the call has raised after three rungs
C2_Witness ==
  /\ op = "normalize" /\ pc = "done" /\ outcome = "raise"
  /\ ~C_HeifFamily(up) /\ up.pyheif
  /\ Len(attempted) = 3

\* C3: the external converter is called, and a process spawned, only for an
\* input whose sniffed MIME type contains heic/heif/avif or whose file name
\* ends in .heic/.heif/.avif.
C3_ExternalOnlyForHeifFamily ==
  ( \/ pc \in {"n_external", "x_mkdtemp", "x_write", "x_resolve", "x_run", "x_wait",
               "x_read", "x_finally"}
    \/ \E i \in 1..Len(attempted) : attempted[i].rung = "external"
    \/ proc.spawned > 0
    \/ created # {} ) => C_HeifFamily(up)

\* a converter process was spawned for a file known as HEIC by its name alone
C3_Witness ==
  /\ proc.spawned = 1
  /\ up.mime = "image/jpeg" /\ up.name = "IMG.HEIC"

C4_Finished ==
  \E i \in 1..Len(attempted) : attempted[i].rung = "external" /\ attempted[i].res # "pending"

\* C4: once a call of _convert_heif_like_external has finished, by return or
\* by exception, its temporary directory and the input and output files in it
\* no longer exist.
C4_TmpRemoved == C4_Finished => tmp = NoTmp

\* the call made the directory and both files, then raised (the PNG was unreadable
\* or the converter reported failure), and has finished
C4_Witness ==
  /\ C4_Finished
  /\ created = {"dir", "input", "output"}
  /\ loc.exc

\* C5: a call of _convert_heif_like_external that waits for its converter can
\* always go on by itself (the wait is bounded), so it ends even when the
\* converter never exits.
C5_CallCanAlwaysProceed == pc = "x_wait" => ENABLED ExtNext

-----------------------------------------------------------------------------
(* Properties of the collage and the placeholder (checked under SpecCollage). *)

\* full lies in the directory tree of MEDIA_ROOT
C_InsideRoot(full) == full = MEDIA_ROOT \/ StartsWith(full, MEDIA_ROOT \o "/")

\* C6: a path that resolves outside the MEDIA_ROOT tree never passes the guard
\* of combine_item_images or build_preview_placeholder, and no file outside
\* the tree is opened.
C6_EscapingPathsRejected ==
  /\ pc \in {"c_open", "p_open"} => C_InsideRoot(Resolved[paths[idx]])
  /\ \A i \in 1..Len(opened) : C_InsideRoot(opened[i])

C7_BeginsWithRoot(full) == SubSeq(full, 1, Len(MEDIA_ROOT)) = MEDIA_ROOT

C_Laid == op = "combine" /\ pc = "done" /\ layout # NoLayout

\* the rectangle of the cell in row r, column c (0-based): <<left, top, right, bottom>>
C_Cell(r, c) ==
  LET left == c * (layout.cell[1] + Spacing)
      top == r * (layout.cell[2] + Spacing)
  IN  <<left, top, left + layout.cell[1], top + layout.cell[2]>>

\* the rectangle image i (1-based) was pasted on
C_Pasted(i) ==
  LET p == layout.pastes[i]
  IN  <<p.at[1], p.at[2], p.at[1] + p.size[1], p.at[2] + p.size[2]>>

C_Within(a, b) == b[1] <= a[1] /\ b[2] <= a[2] /\ a[3] <= b[3] /\ a[4] <= b[4]

C_Disjoint(a, b) == a[3] <= b[1] \/ b[3] <= a[1] \/ a[4] <= b[2] \/ b[4] <= a[2]

\* C8: one image is passed through and no canvas is drawn; two images make one
\* row of two columns; three images make two rows of two columns, image i
\* (0-based) in row i div 2, column i mod 2, and the bottom-right cell holds
\* no image.
C8_LayoutByCount ==
  C_Laid =>
    /\ Len(item_images) = 1 =>
         ~layout.canvas /\ layout.pastes = <<>> /\ layout.size = item_images[1]
    /\ Len(item_images) = 2 =>
         /\ layout.canvas /\ layout.rows = 1 /\ layout.cols = 2
         /\ \A i \in 0..1 : C_Within(C_Pasted(i + 1), C_Cell(0, i))
    /\ Len(item_images) = 3 =>
         /\ layout.canvas /\ layout.rows = 2 /\ layout.cols = 2
         /\ \A i \in 0..2 : C_Within(C_Pasted(i + 1), C_Cell(i \div 2, i % 2))
         /\ \A i \in 1..3 : C_Disjoint(C_Pasted(i), C_Cell(1, 1))

\* a collage of three images was saved
C8_Witness == C_Laid /\ outcome = "path" /\ Len(item_images) = 3 /\ Len(layout.pastes) = 3

C9_MaxSide(k) ==
  CHOOSE v \in {item_images[i][k] : i \in 1..Len(item_images)} :
    \A i \in 1..Len(item_images) : item_images[i][k] <= v

\* C9: for two or three inputs every cell is as wide as the widest input and as
\* high as the highest; the canvas is 2*maxW + 20 by maxH for two inputs and
\* 2*maxW + 20 by 2*maxH + 20 for three.
C9_CellAndCanvasSize ==
  (C_Laid /\ Len(item_images) \in {2, 3}) =>
    /\ layout.cell = <<C9_MaxSide(1), C9_MaxSide(2)>>
    /\ layout.size[1] = 2 * C9_MaxSide(1) + 20
    /\ Len(item_images) = 2 => layout.size[2] = C9_MaxSide(2)
    /\ Len(item_images) = 3 => layout.size[2] = 2 * C9_MaxSide(2) + 20

\* three inputs, the widest of which is not the highest
C9_Witness ==
  /\ C_Laid /\ outcome = "path" /\ Len(item_images) = 3
  /\ \E i, j \in 1..3 :
       /\ item_images[i][1] = layout.cell[1] /\ item_images[i][2] < layout.cell[2]
       /\ item_images[j][2] = layout.cell[2] /\ item_images[j][1] < layout.cell[1]

\* C10: in a collage of two or three images, image i is pasted at the origin
\* of its cell plus floor((cell - image) / 2) in each axis; it lies inside its
\* cell and inside the canvas, and no two pasted images overlap.
C10_CentredInsideCell ==
  (C_Laid /\ Len(item_images) \in {2, 3}) =>
    /\ \A i \in 1..Len(item_images) :
         LET cell == C_Cell((i - 1) \div 2, (i - 1) % 2)
             img == item_images[i]
         IN  /\ layout.pastes[i].size = img
             /\ layout.pastes[i].at[1] = cell[1] + (layout.cell[1] - img[1]) \div 2
             /\ layout.pastes[i].at[2] = cell[2] + (layout.cell[2] - img[2]) \div 2
             /\ C_Within(C_Pasted(i), cell)
             /\ C_Within(C_Pasted(i), <<0, 0, layout.size[1], layout.size[2]>>)
    /\ \A i, j \in 1..Len(item_images) : i # j => C_Disjoint(C_Pasted(i), C_Pasted(j))

\* three images, one of them narrower than the cell by an odd number of pixels
C10_Witness ==
  /\ C_Laid /\ outcome = "path" /\ Len(item_images) = 3
  /\ \E i \in 1..3 : (layout.cell[1] - item_images[i][1]) % 2 = 1

\* an input path combine_item_images must refuse: the file is missing, lies
\* outside the MEDIA_ROOT tree, or holds an image of zero dimensions
C11_BadInput(rel) ==
  LET full == Resolved[rel]
  IN  \/ ~Exists(full)
      \/ ~C_InsideRoot(full)
      \/ (File(full).image /\ File(full).size = <<0, 0>>)

\* C11: combine_item_images is all-or-nothing: a call with an empty list, or
\* with a path that is missing, escapes the root or has zero dimensions, ends
\* by raising and writes no combined file; a combined file is written only
\* after every input was loaded.
C11_AllOrNothing ==
  (op = "combine" /\ pc = "done") =>
    /\ (paths = <<>> \/ \E k \in 1..Len(paths) : C11_BadInput(paths[k]))
          => (outcome = "raise" /\ written = {})
    /\ outcome = "raise" => written = {}
    /\ written # {} => (Len(item_images) = Len(paths) /\ Len(opened) = Len(paths))

-----------------------------------------------------------------------------
(* Properties of the resizers (checked under SpecResize).                  *)

\* C12: for every size (w, h) with w, h >= 1 and threshold T a resizer leaves
\* the image alone when max(w, h) <= T; otherwise the size it returns has long
\* edge T and a short edge less than one pixel from short * T / long; resizing
\* the result again changes nothing.
C12_ResizeToThreshold ==
  (op = "resize" /\ pc \in {"r_again", "done"}) =>
    LET w == rs.given[1]
        h == rs.given[2]
        T == rs.max_dimension
        long == Max(w, h)
        short == IF w >= h THEN h ELSE w
        new_long == Max(rs.once[1], rs.once[2])
        new_short == IF w >= h THEN rs.once[2] ELSE rs.once[1]
        diff == new_short * long - short * T
    IN  /\ long <= T => (rs.once = rs.given /\ ~rs.raised)
        /\ long > T => /\ ~rs.raised
                       /\ new_long = T
                       /\ diff < long /\ -diff < long
        /\ pc = "done" => rs.twice = rs.once

-----------------------------------------------------------------------------
(* Properties of upload validation (checked under SpecUpload).             *)

\* C13: every image an upload validator persists has its long edge within the
\* configured maximum and mode RGB or RGBA, and no validator hands an image
\* with alpha or a palette to the JPEG encoder, whatever content type came
\* with the file.
C13_StoredModeAndSize ==
  (op = "upload" /\ pc = "done") =>
    /\ \A i \in 1..Len(stored) :
         /\ Max(stored[i].im.size[1], stored[i].im.size[2]) <= UploadMaxDimension
         /\ stored[i].im.mode \in {"RGB", "RGBA"}
    /\ (errors = <<>> /\ stored = <<>>) => validate_image(file).raised # "OSError"

-----------------------------------------------------------------------------
(* Properties of normalize_to_webp after decoding (checked under SpecDecode). *)

\* C14: normalize_to_webp returns, for every decoded image that carries
\* transparency (mode RGBA, mode LA, or mode P with a transparency entry), the
\* image pasted over white with its alpha channel as the mask, and for every
\* other image its plain RGB conversion; the mode of the result is RGB.
C14_FlattenedOverWhite ==
  (op = "normalize" /\ pc = "done" /\ image # NoImage) =>
    LET src == image.decoded
    IN  /\ image.raised = "" /\ image.mode = "RGB"
        /\ IF src.mode \in {"RGBA", "LA"} \/ (src.mode = "P" /\ src.transparency)
           THEN image.blend = src.alpha
           ELSE image.blend = <<>>

-----------------------------------------------------------------------------
(* Orientation and metadata in upload validation (checked under SpecUpload). *)

\* C15: for every Orientation tag 1..8 the file a validator stores holds the
\* picture upright (the rotation or mirroring the tag asks for was applied)
\* and carries no Orientation tag.
C15_StoredUpright ==
  (op = "upload" /\ pc = "done" /\ outcome = "path" /\ file.content.exif = "tag") =>
    \A i \in 1..Len(stored) :
      /\ stored[i].im.px = Upright
      /\ stored[i].im.exif # "tag"
      /\ exif_transpose(stored[i].im) = stored[i].im

\* C16: in upload validation a missing, unreadable or broken EXIF block is not
\* fatal: a file that passes the checks of its field and that the validator
\* accepts without the block is accepted with it, neither rejected nor aborted,
\* and is stored with its pixels as decoded.
C16_MetadataErrorsNotFatal ==
  (op = "upload" /\ pc = "done" /\ file.content.exif \in {"none", "no_tag", "broken"}
     /\ validate_image([file EXCEPT !.content.exif = "none"]).error = ""
     /\ validate_image([file EXCEPT !.content.exif = "none"]).raised = ""
     /\ \A i \in 1..Len(errors) : errors[i].kind = "Error processing item photo") =>
    /\ outcome = "path"
    /\ errors = <<>>
    /\ \A i \in 1..Len(stored) : stored[i].im.px = file.content.px

\* the formats and content types of the allow-list: JPEG (MPO is a JPEG
\* container), PNG, WebP, AVIF, and HEIC/HEIF when HEIC support is enabled
C17_Allowed(f) ==
  \/ f.content.format \in {"JPEG", "MPO", "PNG", "WEBP", "AVIF"}
  \/ f.content_type \in {"image/jpeg", "image/jpg", "image/mpo", "image/png",
                          "image/webp", "image/avif"}
  \/ f.HEIC_SUPPORT /\ (f.content.format = "HEIF"
                           \/ f.content_type \in {"image/heic", "image/heif"})

\* C17: an upload is rejected with an error on its field, and no file is
\* stored for it, whenever it exceeds 8 MB, neither its content type nor its
\* format is on the allow-list, its decoded size is below 256x256 (user
\* photo) or 128x128 (item photo), or more than 3 item photos are supplied.
C17_InvalidUploadsRejected ==
  (op = "upload" /\ pc = "done"
     /\ \/ file.size > MaxSize
        \/ ~C17_Allowed(file)
        \/ LET min == IF file.field = "user_photo" THEN 256 ELSE 128
           IN  file.content.format # ""
                 /\ (file.content.size[1] < min \/ file.content.size[2] < min)
        \/ file.field = "item_photo" /\ file.count > 3) =>
    /\ outcome = "rejected"
    /\ stored = <<>>
    /\ Len(errors) = 1 /\ errors[1].field = file.field

\* the upload is of the HEIC/HEIF family by its content type or by its name
C18_HeicFamily(f) ==
  f.content_type \in {"image/heic", "image/heif"} \/ is_heic_file(f.name)

\* C18: an upload that passed the size, count and content-type checks and
\* cannot be decoded is reported with the HEIC guidance (convert to JPEG or
\* PNG) exactly when its content type or its file name extension is of the
\* HEIC/HEIF family, and with the generic "not a valid image or is corrupted"
\* error otherwise.
C18_UndecodableGuidance ==
  (op = "upload" /\ pc = "done"
     /\ ~Decodable(file.content, file.HEIC_SUPPORT)
     /\ Len(errors) = 1
     /\ errors[1].kind \notin {"File too large", "Maximum files allowed",
                               "max_length", "Unsupported file format"}) =>
    IF C18_HeicFamily(file)
    THEN errors[1].kind \in {"HEIC files are not supported",
                              "HEIC file processing failed"}
    ELSE errors[1].kind \in {"File is not a valid image or is corrupted",
                              "invalid_image"}

\* C28: for every image with width and height >= 1 and long edge above the
\* threshold (800, 2048 or 3000), the size a resizer computes has both sides
\* >= 1, so img.resize is never asked for an empty image.
C28_NoZeroSide ==
  (op = "resize" /\ pc \in {"r_again", "done"}
     /\ Max(rs.given[1], rs.given[2]) > rs.max_dimension) =>
    /\ rs.once[1] >= 1 /\ rs.once[2] >= 1
    /\ ~rs.raised

\* C26: the validator of one uploaded file ends in exactly one of two ways:
\* it has stored the normalized image and returned its path, with no error,
\* or it has recorded (form) or raised (serializer) a validation error, with
\* nothing stored; never with neither, and never with another exception.
C26_PathOrValidationError ==
  (op = "upload" /\ pc = "done") =>
    \/ outcome = "path" /\ Len(stored) = 1 /\ errors = <<>>
    \/ outcome = "rejected" /\ stored = <<>> /\ Len(errors) = 1

\* C22: no text sent to the client in the upload and try-on handlers (a field
\* error of the form or the serializer, a flash message of the web views)
\* holds the verbatim message of the exception that caused it.
C22_NoExceptionTextToClient ==
  /\ \A i \in 1..Len(errors) :
       errors[i].raw # "" => ~Contains(errors[i].text, errors[i].raw)
  /\ (op = "try_on" /\ req.raw # "") => ~Contains(req.flash, req.raw)

\* the same, for the uploads alone
C22_UploadErrorsHide ==
  \A i \in 1..Len(errors) :
    errors[i].raw # "" => ~Contains(errors[i].text, errors[i].raw)

\* the responses of the two API try-on views carry fixed texts only
C22_ApiTryOnHides ==
  (op = "try_on" /\ file.via = "api") => req.flash = ""

-----------------------------------------------------------------------------
(* Properties of the placeholder's errors (checked under SpecCollage).     *)

\* the fixed texts that the except clauses put in front of str(e)
C20_Prefixes == {"Placeholder file error: ", "Placeholder file access error: ",
                 "Unknown error during placeholder creation: "}

\* C20 as stated: every failure of build_preview_placeholder leaves as
\* ValueError, and the message of the underlying exception never reaches the
\* caller.
C20_NeverRawMessage ==
  (op = "placeholder" /\ pc = "done" /\ outcome = "raise") =>
    /\ err.type = "ValueError"
    /\ ~Contains(err.message, err.raw)

\* C20: every failure of build_preview_placeholder (path outside the root,
\* missing file, unidentifiable image, zero dimensions, resize, file system
\* or encoder error) leaves as ValueError and as nothing else.  For a rejected
\* path and an unidentifiable image the message is a fixed text; for every
\* other failure it is a fixed prefix followed by the message of the
\* underlying exception.
C20_WrappedAsValueError ==
  (op = "placeholder" /\ pc = "done") =>
    /\ outcome = "raise" <=> err # NoError
    /\ outcome = "raise" =>
         /\ err.type = "ValueError"
         /\ IF err.cause \in {"guard", "UnidentifiedImageError"}
            THEN ~Contains(err.message, err.raw)
            ELSE \E prefix \in C20_Prefixes : err.message = prefix \o err.raw

\* a stored RGBA image: the JPEG encoder's OSError has left the call as
\* ValueError, with the encoder's message after the prefix
C20_EncoderErrorWrapped ==
  /\ op = "placeholder" /\ pc = "done" /\ outcome = "raise"
  /\ paths = <<"uploads/b.png">>
  /\ err.cause = "OSError"
  /\ err.type = "ValueError"
  /\ err.message = "Placeholder file access error: cannot write mode RGBA as JPEG"

-----------------------------------------------------------------------------
(* Properties of the try-on requests (checked under SpecTryOn).            *)

\* C19: a try-on request whose uploads were accepted and whose collage was
\* built, and in which the AI call is disabled, failed or returned no image,
\* ends with a result: the placeholder was built from the stored user photo,
\* whatever its format and colour mode, and its path is in the response
\* (the file system accepting the write).
C19_AlwaysAResult ==
  (op = "try_on" /\ pc = "done" /\ req.combined = "path"
     /\ (~req.USE_GEMINI \/ req.ai \in {"error", "no_image"})
     /\ ~(err # NoError /\ err.raw = "[Errno 28] No space left on device")) =>
    /\ req.placeholder = "path"
    /\ req.response = "result"
    /\ \E w \in written : w.kind = "placeholder"

-----------------------------------------------------------------------------
(* Properties of the external-converter rung (checked under SpecDecode).   *)

\* the external converter was the last rung tried and its call is over
C_ExternalOver ==
  /\ op = "normalize" /\ pc \in {"n_post", "done"}
  /\ Len(attempted) > 0
  /\ attempted[Len(attempted)].rung = "external"

\* C24: the external-converter rung succeeds only when the converter exited
\* with code 0 and wrote the output file; a run that exited with code 0
\* without the output file, or with another code and the output file, fails
\* the rung and no image is returned.
C24_SuccessNeedsExitZeroAndOutput ==
  C_ExternalOver =>
    /\ attempted[Len(attempted)].res = "ok" =>
         (proc.state = "exited" /\ proc.code = 0 /\ "output" \in created)
    /\ (proc.state = "exited" /\ (proc.code # 0 \/ "output" \notin created)) =>
         /\ attempted[Len(attempted)].res = "fail"
         /\ pc = "done" /\ outcome = "raise" /\ image = NoImage

\* the converter wrote the output file but exited with code 1: the rung failed
C24_OutputButNonZeroExit ==
  /\ C_ExternalOver /\ pc = "done"
  /\ proc.state = "exited" /\ proc.code = 1 /\ "output" \in created
  /\ attempted[Len(attempted)].res = "fail" /\ outcome = "raise"

\* C25: one call of the external converter spawns at most one process;
\* heif-convert is the tool whenever it was resolved, ImageMagick only when
\* heif-convert was not resolved; and when the heif-convert run has failed
\* the rung has failed with that one process spawned, ImageMagick not tried.
C25_OneToolPerCall ==
  op = "normalize" =>
    /\ proc.spawned <= 1
    /\ loc.tool = "heif-convert" <=> loc.heif_convert
    /\ loc.tool = "magick" <=> (loc.magick /\ ~loc.heif_convert)
    /\ (loc.tool = "heif-convert" /\ proc.state = "exited" /\ loc.exc /\ pc = "done") =>
         /\ proc.spawned = 1
         /\ attempted[Len(attempted)] = [rung |-> "external", res |-> "fail"]
         /\ outcome = "raise"

\* both tools were resolved and heif-convert exited with code 1: the call
\* raised after that single process
C25_HeifConvertFailedMagickUnused ==
  /\ op = "normalize" /\ pc = "done" /\ outcome = "raise"
  /\ loc.heif_convert /\ loc.magick /\ loc.tool = "heif-convert"
  /\ proc.state = "exited" /\ proc.code = 1 /\ proc.spawned = 1

\* C21: in a try-on request the AI client and the placeholder generator are
\* called only after combine_item_images has returned, with the combined file
\* written; when the collage fails neither is called, no result is written
\* or returned, and the request ends with the failure response.
C21_CollageBeforeResult ==
  op = "try_on" =>
    /\ (req.ai # "none" \/ req.placeholder # "none") =>
         /\ req.combined = "path"
         /\ \E w \in written : w.kind = "combined_items"
    /\ req.combined = "raise" =>
         /\ req.ai = "none" /\ req.placeholder = "none"
         /\ written = {}
         /\ pc = "done" /\ outcome = "error" /\ req.response = "COMBINE_ERROR"

\* an item that does not load: the request has ended with the collage's
\* failure response, with the AI enabled and never called
C21_CollageFailed ==
  /\ op = "try_on" /\ pc = "done"
  /\ req.items = <<"uploads/bad.jpg">> /\ req.USE_GEMINI
  /\ req.combined = "raise" /\ req.ai = "none" /\ req.placeholder = "none"
  /\ req.response = "COMBINE_ERROR"

\* C29: in process_view the prompt handed to the AI client holds the [MASK]
\* section exactly when a mask image path is handed to it in the same call;
\* when decoding or saving the posted mask failed, neither is sent.
C29_MaskSectionIffMaskImage ==
  (op = "try_on" /\ req.view = "process_view" /\ req.ai # "none") =>
    (Contains(req.sent.prompt, "[MASK]") <=> req.sent.mask_img_path # "")

-----------------------------------------------------------------------------
(* Properties of a whole upload request (checked under SpecRequest).       *)

\* C27: a request that upload validation rejects leaves the storage
\* directory unchanged: no normalized file of the request is under uploads/.
C27_RejectedLeavesNoFile ==
  (op = "request" /\ pc = "done" /\ outcome = "rejected") => stored = <<>>

\* a request that ends in an unhandled exception of a validator
C_RequestCrashed == op = "request" /\ pc = "done" /\ outcome = "raise" /\ ~req.valid

\* the same frame condition for the requests an exception ends
C27_CrashedLeavesNoFile == C_RequestCrashed => stored = <<>>

\* C30: every POST to upload_view or hair_upload_view whose form is valid
\* completes without an unhandled error, stores the paths in the session and
\* redirects to the preview.
C30_ValidFormReachesPreview ==
  (op = "request" /\ pc = "done" /\ req.valid
     /\ req.view \in {"upload_view", "hair_upload_view"}) =>
    (outcome = "redirect" /\ req.session # "none")

\* the second half of C30: the preview is shown only with a session entry
C30_PreviewOnlyWithSession ==
  (op = "request" /\ req.page = "preview") => req.session # "none"

\* a valid form was posted and the preview was asked for afterwards
C30_ValidThenPreviewAsked ==
  op = "request" /\ req.valid /\ req.page = "redirect_upload"

-----------------------------------------------------------------------------
(* Properties of concurrent invocations (checked under SpecConcurrent).    *)

\* the invocations that hold a temporary directory
C_HoldsDir(i) == conc.inv[i].kind = "external" /\ conc.inv[i].at \notin {"start", "done"}

C23_TwoTempDirs ==
  /\ op = "concurrent"
  /\ C_HoldsDir(1) /\ C_HoldsDir(2)
  /\ conc.inv[1].at = "read" /\ conc.inv[2].at = "rmtree"

=============================================================================
